---------------------------- MODULE Spec2Model ----------------------------
(***************************************************************************)
(* Calculator history subsystem: the Calculation codec, the two storage    *)
(* backends (MemoryRepository, CSVRepository), the CalculationHistory      *)
(* service on top of them and the singleton lifecycle that ties them       *)
(* together.                                                               *)
(*                                                                         *)
(* Python strings are modelled as sequences of one-character strings, so   *)
(* that formatting, joining, splitting and parsing are computed and not    *)
(* assumed.  Decimal values are [c, e, t] with value c * 10^e.             *)
(***************************************************************************)
EXTENDS Integers, Sequences, FiniteSets, TLC

(***************************************************************************)
(* Bounds of the model.                                                    *)
(***************************************************************************)
\* Largest number of records a store is driven to hold.
MaxLen == 3
\* Largest number of repository (re)configurations in one behaviour.
MaxGen == 3

(***************************************************************************)
(* Characters and numerals.                                                *)
(***************************************************************************)
Digits == <<"0", "1", "2", "3", "4", "5", "6", "7", "8", "9">>

IsDigit(ch) == \E i \in 1..10 : Digits[i] = ch

DigitVal(ch) == (CHOOSE i \in 1..10 : Digits[i] = ch) - 1

AllDigits(s) == \A i \in 1..Len(s) : IsDigit(s[i])

Abs(n) == IF n < 0 THEN -n ELSE n

RECURSIVE Pow(_, _)
Pow(b, n) == IF n <= 0 THEN 1 ELSE b * Pow(b, n - 1)

\* str(n) for a natural number n.
RECURSIVE NatStr(_)
NatStr(n) == IF n < 10 THEN <<Digits[n + 1]>>
             ELSE NatStr(n \div 10) \o <<Digits[(n % 10) + 1]>>

\* int(s) for a string of digits.
RECURSIVE DigitsToNat(_)
DigitsToNat(s) == IF Len(s) = 0 THEN 0
                  ELSE 10 * DigitsToNat(SubSeq(s, 1, Len(s) - 1)) + DigitVal(s[Len(s)])

\* s.zfill(w): pad with zeros on the left up to width w.
RECURSIVE ZFill(_, _)
ZFill(s, w) == IF Len(s) >= w THEN s ELSE ZFill(<<"0">> \o s, w)

\* Position of the first occurrence of ch in s, 0 when there is none.
IndexOf(s, ch) == IF \E i \in 1..Len(s) : s[i] = ch
                  THEN CHOOSE i \in 1..Len(s) : s[i] = ch /\ \A j \in 1..(i - 1) : s[j] # ch
                  ELSE 0

\* sep.join(parts) with a one-character separator.
RECURSIVE Join(_, _)
Join(parts, sep) == IF Len(parts) = 0 THEN <<>>
                    ELSE IF Len(parts) = 1 THEN parts[1]
                    ELSE parts[1] \o <<sep>> \o Join(Tail(parts), sep)

\* s.split(sep) with a one-character separator: always at least one segment.
RECURSIVE Split(_, _)
Split(s, sep) == LET i == IndexOf(s, sep)
                 IN IF i = 0 THEN <<s>>
                    ELSE <<SubSeq(s, 1, i - 1)>> \o Split(SubSeq(s, i + 1, Len(s)), sep)

(***************************************************************************)
(* Decimal values.  A Python value that can be a Calculation's result is   *)
(* [c, e, t]: t = "Decimal" is the finite decimal c * 10^e, "None" is an   *)
(* absent result, "DecimalNaN" is Decimal('NaN') and "DecimalBin" is       *)
(* Decimal(x) for the double x nearest to c * 10^e when that double is not *)
(* c * 10^e itself (its exact binary expansion, equal to no short decimal).*)
(***************************************************************************)
Dec(c, e) == [c |-> c, e |-> e, t |-> "Decimal"]

None == [c |-> 0, e |-> 0, t |-> "None"]

DecimalNaN == [c |-> 0, e |-> 0, t |-> "DecimalNaN"]

\* Decimal.__eq__: numeric equality of finite decimals; NaN equals nothing.
DecEq(x, y) ==
    IF x.t = "Decimal" /\ y.t = "Decimal"
    THEN LET m == IF x.e < y.e THEN x.e ELSE y.e
         IN x.c * Pow(10, x.e - m) = y.c * Pow(10, y.e - m)
    ELSE x.t = y.t /\ x.t # "DecimalNaN" /\ x.c = y.c /\ x.e = y.e

\* Strip trailing zeros of the coefficient while the exponent is negative.
RECURSIVE Normalize(_, _)
Normalize(c, e) == IF e < 0 /\ c % 10 = 0 THEN Normalize(c \div 10, e + 1)
                   ELSE <<c, e>>

\* str(Decimal) for exponents <= 0 (plain notation; the model's decimals
\* have no positive exponent).
DecStr(d) ==
    LET sign == IF d.c < 0 THEN <<"-">> ELSE <<>>
        a    == Abs(d.c)
        p    == Pow(10, -d.e)
    IN IF d.e >= 0 THEN sign \o NatStr(a)
       ELSE sign \o NatStr(a \div p) \o <<".">> \o ZFill(NatStr(a % p), -d.e)

\* Decimal(s) for a string s: [ok, v].  Accepts [-]digits[.digits]; any
\* other text raises decimal.InvalidOperation (ok = FALSE).
ParseDecimal(s) ==
    LET neg  == Len(s) > 0 /\ s[1] = "-"
        u    == IF neg THEN Tail(s) ELSE s
        dot  == IndexOf(u, ".")
        ip   == IF dot = 0 THEN u ELSE SubSeq(u, 1, dot - 1)
        fp   == IF dot = 0 THEN <<>> ELSE SubSeq(u, dot + 1, Len(u))
        good == /\ AllDigits(ip) /\ AllDigits(fp)
                /\ Len(ip) + Len(fp) > 0
        mag  == DigitsToNat(ip \o fp)
    IN IF good THEN [ok |-> TRUE, v |-> Dec(IF neg THEN -mag ELSE mag, -Len(fp))]
       ELSE [ok |-> FALSE, v |-> None]

(***************************************************************************)
(* The arithmetic operations and the operation registry.                   *)
(***************************************************************************)
ADD == <<"a", "d", "d">>
SUBTRACT == <<"s", "u", "b", "t", "r", "a", "c", "t">>
MULTIPLY == <<"m", "u", "l", "t", "i", "p", "l", "y">>
DIVIDE == <<"d", "i", "v", "i", "d", "e">>

\* operation_registry after src.operations.basic has been imported.
operation_registry == {ADD, SUBTRACT, MULTIPLY, DIVIDE}

\* Decimal addition: the exponent of the sum is the smaller exponent.
add(a, b) ==
    LET m == IF a.e < b.e THEN a.e ELSE b.e
    IN Dec(a.c * Pow(10, a.e - m) + b.c * Pow(10, b.e - m), m)

subtract(a, b) == add(a, Dec(-b.c, b.e))

multiply(a, b) == Dec(a.c * b.c, a.e + b.e)

\* Decimal division for quotients that terminate within MaxFrac further
\* digits (the model's operand pairs all do): the exponent is lowered from
\* a.e - b.e only as far as exactness needs.
MaxFrac == 3

divide(a, b) ==
    LET n == Abs(a.c)
        d == Abs(b.c)
        k == CHOOSE i \in 0..MaxFrac :
                 /\ (n * Pow(10, i)) % d = 0
                 /\ \A j \in 0..(i - 1) : (n * Pow(10, j)) % d # 0
        q == (n * Pow(10, k)) \div d
    IN Dec(IF (a.c < 0) = (b.c < 0) THEN q ELSE -q, a.e - b.e - k)

\* Calling the registered function: [ok, v]; divide raises ZeroDivisionError.
Apply(name, a, b) ==
    IF name = ADD THEN [ok |-> TRUE, v |-> add(a, b)]
    ELSE IF name = SUBTRACT THEN [ok |-> TRUE, v |-> subtract(a, b)]
    ELSE IF name = MULTIPLY THEN [ok |-> TRUE, v |-> multiply(a, b)]
    ELSE IF b.c = 0 THEN [ok |-> FALSE, v |-> None]
    ELSE [ok |-> TRUE, v |-> divide(a, b)]

(***************************************************************************)
(* Values held in a flat record (a dict handed to a repository, a cell of  *)
(* the DataFrame): [s, c, e, t] with t = "str" (the string s), "int" (the  *)
(* integer c), "float" (the double whose shortest repr is c * 10^e) or     *)
(* "nan" (float NaN, pandas' missing value); t = "missing" stands for a    *)
(* key the dict does not have.                                             *)
(***************************************************************************)
StrCell(s) == [s |-> s, c |-> 0, e |-> 0, t |-> "str"]

IntCell(c) == [s |-> <<>>, c |-> c, e |-> 0, t |-> "int"]

FloatCell(c, e) == [s |-> <<>>, c |-> c, e |-> e, t |-> "float"]

NaNCell == [s |-> <<>>, c |-> 0, e |-> 0, t |-> "nan"]

\* The dict has no such key: data[key] raises KeyError.
MissingCell == [s |-> <<>>, c |-> 0, e |-> 0, t |-> "missing"]

\* bool(value) as used by "if data['result']".
Truthy(v) == IF v.t = "str" THEN Len(v.s) > 0
             ELSE IF v.t = "nan" THEN TRUE
             ELSE v.c # 0

\* A double equals the decimal c * 10^e exactly iff the reduced denominator
\* is a power of two, i.e. 5^(-e) divides c.
IsDyadic(c, e) == e >= 0 \/ Abs(c) % Pow(5, -e) = 0

\* Decimal(value) for a flat-record value: [ok, v]; a string that is not a
\* decimal literal raises decimal.InvalidOperation.
ToDecimal(v) ==
    IF v.t = "str" THEN ParseDecimal(v.s)
    ELSE IF v.t = "int" THEN [ok |-> TRUE, v |-> Dec(v.c, 0)]
    ELSE IF v.t = "nan" THEN [ok |-> TRUE, v |-> DecimalNaN]
    ELSE IF IsDyadic(v.c, v.e)
         THEN [ok |-> TRUE, v |-> Dec(Normalize(v.c, v.e)[1], Normalize(v.c, v.e)[2])]
         ELSE [ok |-> TRUE, v |-> [c |-> v.c, e |-> v.e, t |-> "DecimalBin"]]

(***************************************************************************)
(* Timestamps: [s, us], seconds and microseconds.  isoformat() writes the  *)
(* seconds part and, only when us # 0, a dot and six microsecond digits;   *)
(* the date-and-time text is abstracted to "T" followed by the seconds.    *)
(***************************************************************************)
UsDigits == 6

isoformat(ts) ==
    <<"T">> \o NatStr(ts.s)
            \o (IF ts.us = 0 THEN <<>> ELSE <<".">> \o ZFill(NatStr(ts.us), UsDigits))

\* datetime.fromisoformat(s): [ok, v]; ValueError when s is not in the format.
fromisoformat(s) ==
    LET u    == IF Len(s) > 0 THEN Tail(s) ELSE <<>>
        dot  == IndexOf(u, ".")
        sp   == IF dot = 0 THEN u ELSE SubSeq(u, 1, dot - 1)
        fp   == IF dot = 0 THEN <<>> ELSE SubSeq(u, dot + 1, Len(u))
        good == /\ Len(s) > 0 /\ s[1] = "T"
                /\ Len(sp) > 0 /\ AllDigits(sp)
                /\ (dot = 0 \/ (Len(fp) = UsDigits /\ AllDigits(fp)))
    IN IF good THEN [ok |-> TRUE, v |-> [s |-> DigitsToNat(sp), us |-> DigitsToNat(fp)]]
       ELSE [ok |-> FALSE, v |-> [s |-> 0, us |-> 0]]

(***************************************************************************)
(* Calculation: [id, operation_name, operands, result, timestamp].         *)
(***************************************************************************)
\* Calculation.__init__: the id (uuid4) and the clock reading are inputs; the
\* id attribute holds a flat-record value because from_dict assigns
\* data['id'] to it as it is.  operands = [Decimal(str(arg)) for arg in args].
NewCalculation(id, name, args, now) ==
    [id |-> StrCell(id),
     operation_name |-> name,
     operands |-> [i \in 1..Len(args) |-> ParseDecimal(DecStr(args[i])).v],
     result |-> None,
     timestamp |-> now]

\* A variant of perform_operation that hands the operands to the operation
\* last first.
perform_operationReversed(calc) ==
    LET r == IF Len(calc.operands) = 2
             THEN Apply(calc.operation_name, calc.operands[2], calc.operands[1])
             ELSE [ok |-> FALSE, v |-> None]
    IN IF r.ok THEN [calc |-> [calc EXCEPT !.result = r.v], ok |-> TRUE]
       ELSE [calc |-> calc, ok |-> FALSE]

\* Calculation.perform_operation: [ok, calc]; when the operation raises
\* (TypeError for a binary function not given two operands, ZeroDivisionError)
\* the exception propagates and result keeps its value.
perform_operation(calc) ==
    LET r == IF Len(calc.operands) = 2
             THEN Apply(calc.operation_name, calc.operands[1], calc.operands[2])
             ELSE [ok |-> FALSE, v |-> None]
    IN IF r.ok THEN [calc |-> [calc EXCEPT !.result = r.v], ok |-> TRUE]
       ELSE [calc |-> calc, ok |-> FALSE]

\* A variant of to_dict that tests the result for truth ("if self.result")
\* and so writes a zero result as the empty string.
to_dictFalsyResult(calc) ==
    [id |-> calc.id,
     operation_name |-> StrCell(calc.operation_name),
     operands |-> StrCell(Join([i \in 1..Len(calc.operands) |-> DecStr(calc.operands[i])], ",")),
     result |-> StrCell(IF calc.result.t # "None" /\ calc.result.c # 0
                        THEN DecStr(calc.result) ELSE <<>>),
     timestamp |-> StrCell(isoformat(calc.timestamp))]

\* Calculation.to_dict
to_dict(calc) ==
    [id |-> calc.id,
     operation_name |-> StrCell(calc.operation_name),
     operands |-> StrCell(Join([i \in 1..Len(calc.operands) |-> DecStr(calc.operands[i])], ",")),
     result |-> StrCell(IF calc.result.t # "None" THEN DecStr(calc.result) ELSE <<>>),
     timestamp |-> StrCell(isoformat(calc.timestamp))]

NoCalc == [id |-> StrCell(<<>>), operation_name |-> <<>>, operands |-> <<>>,
           result |-> None, timestamp |-> [s |-> 0, us |-> 0]]

\* Calculation.from_dict: [err, calc], err = "" on success, else the name of
\* the exception raised, in the order the code evaluates.
from_dict(data) ==
    LET parts == Split(data.operands.s, ",")
        ops   == [i \in 1..Len(parts) |-> ParseDecimal(parts[i])]
        res   == ToDecimal(data.result)
        ts    == fromisoformat(data.timestamp.s)
        fail(e) == [calc |-> NoCalc, err |-> e]
    IN IF data.operands.t = "missing" THEN fail("KeyError")
       ELSE IF data.operands.t # "str" THEN fail("AttributeError")
       ELSE IF \E i \in 1..Len(ops) : ~ops[i].ok THEN fail("ValueError")
       ELSE IF data.operation_name.t = "missing" THEN fail("KeyError")
       ELSE IF ~(data.operation_name.t = "str"
                 /\ data.operation_name.s \in operation_registry) THEN fail("ValueError")
       ELSE IF data.id.t = "missing" THEN fail("KeyError")
       ELSE IF data.result.t = "missing" THEN fail("KeyError")
       ELSE IF Truthy(data.result) /\ ~res.ok THEN fail("InvalidOperation")
       ELSE IF data.timestamp.t = "missing" THEN fail("KeyError")
       ELSE IF data.timestamp.t # "str" THEN fail("TypeError")
       ELSE IF ~ts.ok THEN fail("ValueError")
       ELSE [calc |-> [NewCalculation(<<>>, data.operation_name.s,
                                      [i \in 1..Len(ops) |-> ops[i].v], ts.v)
                       EXCEPT !.id = data.id,
                              !.result = IF Truthy(data.result) THEN res.v ELSE None],
             err |-> ""]

(***************************************************************************)
(* Repository results: [err, v].  err = "" when the call returns, else the *)
(* name of the exception raised; v is the sequence of records returned (a  *)
(* single record is returned as a one-element sequence).                   *)
(***************************************************************************)
Ok(v) == [v |-> v, err |-> ""]

Raise(e) == [v |-> <<>>, err |-> e]

\* Python == on flat-record values: a string equals only the same string;
\* numbers compare by value; NaN equals nothing.
PyEq(x, y) ==
    IF x.t = "str" \/ y.t = "str" THEN x = y
    ELSE IF x.t = "nan" \/ y.t = "nan" THEN FALSE
    ELSE LET m == IF x.e < y.e THEN x.e ELSE y.e
         IN /\ x.c * Pow(10, x.e - m) = y.c * Pow(10, y.e - m)
            /\ (x.t = y.t \/ (IsDyadic(x.c, x.e) /\ IsDyadic(y.c, y.e)))

(***************************************************************************)
(* MemoryRepository: _items is a list of flat records.  Every record of    *)
(* the model has an 'id' key, so "'id' in item" is true throughout.        *)
(***************************************************************************)
MemInit == <<>>

\* A variant of add that skips a record whose id is already stored.
MemAddUnlessStored(items, item) ==
    IF \E i \in 1..Len(items) : PyEq(items[i].id, item.id) THEN items
    ELSE Append(items, item)

MemAdd(items, item) == Append(items, item)

MemGetAll(items) == IF Len(items) = 0 THEN Raise("EmptyRepositoryError")
                    ELSE Ok(items)

\* The for loop returns at the first item whose id matches.
RECURSIVE MemGetById(_, _)
MemGetById(items, id) ==
    IF Len(items) = 0 THEN Raise("ItemNotFoundError")
    ELSE IF PyEq(Head(items).id, id) THEN Ok(<<Head(items)>>)
    ELSE MemGetById(Tail(items), id)

MemGetLast(items) == IF Len(items) = 0 THEN Raise("EmptyRepositoryError")
                     ELSE Ok(<<items[Len(items)]>>)

\* A predicate handed to filter, as data: [field, value] stands for
\* lambda item: item[field] == value, which raises on no record.
Holds(predicate, item) == PyEq(item[predicate.field], predicate.value)

\* [item for item in self._items if predicate(item)]
RECURSIVE MemFilter(_, _)
MemFilter(items, predicate) ==
    IF Len(items) = 0 THEN <<>>
    ELSE (IF Holds(predicate, Head(items)) THEN <<Head(items)>> ELSE <<>>)
         \o MemFilter(Tail(items), predicate)

MemClear(items) == <<>>

\* The for loop pops the first item whose id matches and returns:
\* [err, items].
RECURSIVE MemDeleteFrom(_, _, _)
MemDeleteFrom(items, id, i) ==
    IF i > Len(items) THEN [err |-> "ItemNotFoundError", items |-> items]
    ELSE IF PyEq(items[i].id, id)
         THEN [err |-> "",
               items |-> SubSeq(items, 1, i - 1) \o SubSeq(items, i + 1, Len(items))]
         ELSE MemDeleteFrom(items, id, i + 1)

MemDelete(items, id) == MemDeleteFrom(items, id, 1)

(***************************************************************************)
(* The CSV file and pandas' DataFrame.                                     *)
(*                                                                         *)
(* A DataFrame is [cols, rows]: cols is FALSE for pd.DataFrame() (no       *)
(* columns at all) and TRUE once it has the record's columns; rows is the  *)
(* sequence of rows.  The file is [cols, rows, kind] with kind "absent"    *)
(* (no file), "garbage" (text read_csv cannot parse) or "table" (what      *)
(* to_csv wrote: a header line when cols, then one line of cell texts per  *)
(* row; a DataFrame without columns is written as a bare newline).         *)
(***************************************************************************)
Fields == {"id", "operation_name", "operands", "result", "timestamp"}

EmptyFrame == [cols |-> FALSE, rows |-> <<>>]

NoFile == [cols |-> FALSE, rows |-> <<>>, kind |-> "absent"]

GarbageFile == [cols |-> FALSE, rows |-> <<>>, kind |-> "garbage"]

\* DataFrame.empty: any axis of length 0.
IsEmpty(df) == ~df.cols \/ Len(df.rows) = 0

\* repr(float) of the double whose shortest decimal is c * 10^e.
FloatRepr(c, e) == IF e >= 0 THEN DecStr(Dec(c, 0)) \o <<".", "0">>
                   ELSE DecStr(Dec(c, e))

\* The text to_csv writes for a cell (na_rep is the empty string).
CellText(v) == IF v.t = "str" THEN v.s
               ELSE IF v.t = "int" THEN DecStr(Dec(v.c, 0))
               ELSE IF v.t = "float" THEN FloatRepr(v.c, v.e)
               ELSE <<>>

\* DataFrame.to_csv(file_path, index=False)
to_csv(df) ==
    [cols |-> df.cols,
     rows |-> [i \in 1..Len(df.rows) |-> [f \in Fields |-> CellText(df.rows[i][f])]],
     kind |-> "table"]

IsIntLiteral(s) == LET u == IF Len(s) > 0 /\ s[1] = "-" THEN Tail(s) ELSE s
                   IN Len(u) > 0 /\ AllDigits(u)

\* read_csv infers one dtype per column: int64 when every cell is an integer
\* literal, float64 when every cell is empty or a number, object otherwise.
ColumnKind(rows, f) ==
    IF \A i \in 1..Len(rows) : IsIntLiteral(rows[i][f]) THEN "int"
    ELSE IF \A i \in 1..Len(rows) : Len(rows[i][f]) = 0 \/ ParseDecimal(rows[i][f]).ok
         THEN "float"
         ELSE "object"

\* The value read_csv gives a cell of a column of the given kind; an empty
\* cell is NaN.
ParseCell(kind, s) ==
    IF Len(s) = 0 THEN NaNCell
    ELSE IF kind = "int" THEN IntCell(ParseDecimal(s).v.c)
    ELSE IF kind = "float"
         THEN LET d == ParseDecimal(s).v
              IN FloatCell(Normalize(d.c, d.e)[1], Normalize(d.c, d.e)[2])
         ELSE StrCell(s)

\* pd.read_csv(file_path) on a table with a header line.
read_csv(file) ==
    [cols |-> TRUE,
     rows |-> [i \in 1..Len(file.rows) |->
                  [f \in Fields |-> ParseCell(ColumnKind(file.rows, f), file.rows[i][f])]]]

(***************************************************************************)
(* CSVRepository.  Each mutating operation yields [df, file, err].         *)
(***************************************************************************)
\* A variant of __init__ that never loads the file.
CsvInitNoLoad(file) == EmptyFrame

\* A variant of __init__ that takes what it cannot parse for one row of
\* missing values.
CsvInitLoadsAnything(file) ==
    IF file.kind = "table" /\ file.cols THEN read_csv(file)
    ELSE IF file.kind = "garbage" THEN [cols |-> TRUE, rows |-> <<[f \in Fields |-> NaNCell]>>]
    ELSE EmptyFrame

\* __init__: load the file when it exists and is not empty; a file read_csv
\* cannot parse (garbage, or the bare newline of a column-less frame, which
\* raises EmptyDataError) leaves an empty DataFrame.
CsvInit(file) == IF file.kind = "table" /\ file.cols THEN read_csv(file)
                 ELSE EmptyFrame

_save_to_csv(df) == to_csv(df)

\* pd.concat([self._df, pd.DataFrame([item])], ignore_index=True), then save.
CsvAdd(df, file, item) ==
    LET new == [cols |-> TRUE, rows |-> Append(df.rows, item)]
    IN [df |-> new, file |-> _save_to_csv(new), err |-> ""]

\* add when to_csv raises (the file cannot be written): the row has been
\* concatenated to self._df, the file keeps its content, and the exception
\* is wrapped in RepositoryIOError.
CsvAddSaveFails(df, file, item) ==
    [df |-> [cols |-> TRUE, rows |-> Append(df.rows, item)],
     file |-> file, err |-> "RepositoryIOError"]

\* pd.DataFrame([item]) concatenated to a frame that has the column: a key
\* the dict lacks gives NaN in that column.
CsvRow(item) == [f \in DOMAIN item |-> IF item[f].t = "missing" THEN NaNCell ELSE item[f]]

CsvGetAll(df) == IF IsEmpty(df) THEN Raise("EmptyRepositoryError")
                 ELSE Ok(df.rows)

\* self._df[self._df['id'] == id], then iloc[0].
CsvGetById(df, id) ==
    LET filtered == SelectSeq(df.rows, LAMBDA r : PyEq(r.id, id))
    IN IF IsEmpty(df) THEN Raise("ItemNotFoundError")
       ELSE IF Len(filtered) = 0 THEN Raise("ItemNotFoundError")
       ELSE Ok(<<filtered[1]>>)

CsvGetLast(df) == IF IsEmpty(df) THEN Raise("EmptyRepositoryError")
                  ELSE Ok(<<df.rows[Len(df.rows)]>>)

RECURSIVE CsvFilterRows(_, _)
CsvFilterRows(all_items, predicate) ==
    IF Len(all_items) = 0 THEN <<>>
    ELSE (IF Holds(predicate, Head(all_items)) THEN <<Head(all_items)>> ELSE <<>>)
         \o CsvFilterRows(Tail(all_items), predicate)

\* A variant of filter that returns at the first match.
CsvFilterFirstMatch(df, predicate) ==
    LET hits == CsvFilterRows(df.rows, predicate)
    IN IF IsEmpty(df) \/ Len(hits) = 0 THEN <<>> ELSE <<hits[1]>>

CsvFilter(df, predicate) == IF IsEmpty(df) THEN <<>>
                            ELSE CsvFilterRows(df.rows, predicate)

\* A variant of clear that truncates the file and keeps the table.
CsvClearFileOnly(df, file) ==
    [df |-> df, file |-> _save_to_csv(EmptyFrame), err |-> ""]

\* self._df = pd.DataFrame(), then save.
CsvClear(df, file) ==
    [df |-> EmptyFrame, file |-> _save_to_csv(EmptyFrame), err |-> ""]

\* A variant of delete that does not save the file.
CsvDeleteNoSave(df, file, id) ==
    LET kept == [cols |-> TRUE, rows |-> SelectSeq(df.rows, LAMBDA r : ~PyEq(r.id, id))]
    IN IF ~df.cols THEN [df |-> df, file |-> file, err |-> "KeyError"]
       ELSE IF Len(kept.rows) = Len(df.rows)
            THEN [df |-> kept, file |-> file, err |-> "ItemNotFoundError"]
            ELSE [df |-> kept, file |-> file, err |-> ""]

\* self._df[self._df['id'] != id]: indexing a frame without columns by 'id'
\* raises KeyError before anything is assigned; otherwise every row whose id
\* equals the argument is dropped, and the file is saved only when the
\* length changed.
CsvDelete(df, file, id) ==
    LET kept == [cols |-> TRUE, rows |-> SelectSeq(df.rows, LAMBDA r : ~PyEq(r.id, id))]
    IN IF ~df.cols THEN [df |-> df, file |-> file, err |-> "KeyError"]
       ELSE IF Len(kept.rows) = Len(df.rows)
            THEN [df |-> kept, file |-> file, err |-> "ItemNotFoundError"]
            ELSE [df |-> kept, file |-> _save_to_csv(kept), err |-> ""]

\* clear when to_csv raises: self._df = pd.DataFrame() has been assigned, the
\* file keeps its content.
CsvClearSaveFails(df, file) ==
    [df |-> EmptyFrame, file |-> file, err |-> "RepositoryIOError"]

\* delete when to_csv raises: KeyError and ItemNotFoundError leave before
\* the save is tried; otherwise the rows have been dropped from self._df and
\* the file keeps its content.
CsvDeleteSaveFails(df, file, id) ==
    LET kept == [cols |-> TRUE, rows |-> SelectSeq(df.rows, LAMBDA r : ~PyEq(r.id, id))]
    IN IF ~df.cols THEN [df |-> df, file |-> file, err |-> "KeyError"]
       ELSE IF Len(kept.rows) = Len(df.rows)
            THEN [df |-> kept, file |-> file, err |-> "ItemNotFoundError"]
            ELSE [df |-> kept, file |-> file, err |-> "RepositoryIOError"]

(***************************************************************************)
(* Exceptions with what they carry: <<type, operation, error>>; operation  *)
(* and error are <<>> for an exception that has none.                      *)
(***************************************************************************)
NoException == <<>>

\* An exception raised by to_csv.
Cause(type) == <<type, <<>>, <<>>>>

\* A variant of RepositoryIOError.__init__ that does not keep the error.
RepositoryIOErrorDropsCause(operation, error) == <<"RepositoryIOError", operation, <<>>>>

\* RepositoryIOError(operation, error): self.operation, self.error.
RepositoryIOError(operation, error) == <<"RepositoryIOError", operation, error>>

\* _save_to_csv: except Exception as e: raise RepositoryIOError("saving to CSV", e)
SaveError(e) == RepositoryIOError(<<"saving to CSV">>, e)

\* add, clear: except Exception as e: raise RepositoryIOError(..., e), around
\* the whole body, so e is the RepositoryIOError of _save_to_csv.
AddError(e) == RepositoryIOError(<<"adding item">>, SaveError(e))

ClearError(e) == RepositoryIOError(<<"clearing repository">>, SaveError(e))

\* delete: f"saving after deleting item with ID {id}", around the save only.
DeleteError(id, e) ==
    RepositoryIOError(<<"saving after deleting item with ID", id>>, SaveError(e))

(***************************************************************************)
(* CalculationHistory over a repository.  Each operation takes the result  *)
(* of the repository call it makes and yields [err, calc].                 *)
(***************************************************************************)
\* get_calculation_by_id: ItemNotFoundError becomes CalculationNotFoundError,
\* ValueError and KeyError from from_dict become InvalidCalculationDataError,
\* any other exception propagates as it is.
get_calculation_by_id(found) ==
    IF found.err = "ItemNotFoundError"
    THEN [calc |-> NoCalc, err |-> "CalculationNotFoundError"]
    ELSE IF found.err # "" THEN [calc |-> NoCalc, err |-> found.err]
    ELSE LET d == from_dict(found.v[1])
         IN IF d.err \in {"ValueError", "KeyError"}
            THEN [calc |-> NoCalc, err |-> "InvalidCalculationDataError"]
            ELSE d

DomainErrors == {"CalculationNotFoundError", "EmptyHistoryError",
                 "InvalidCalculationDataError"}

\* The for loop of get_all_calculations: a record whose from_dict raises
\* ValueError or KeyError is skipped; any other exception leaves the loop
\* and the method.
RECURSIVE DecodeAll(_)
DecodeAll(calculation_dicts) ==
    IF Len(calculation_dicts) = 0 THEN Ok(<<>>)
    ELSE LET d    == from_dict(Head(calculation_dicts))
             rest == DecodeAll(Tail(calculation_dicts))
         IN IF d.err \notin {"", "ValueError", "KeyError"} THEN Raise(d.err)
            ELSE IF rest.err # "" THEN rest
            ELSE Ok((IF d.err = "" THEN <<d.calc>> ELSE <<>>) \o rest.v)

\* get_all_calculations: EmptyRepositoryError becomes EmptyHistoryError,
\* RepositoryIOError is raised again, anything else propagates.
get_all_calculations(found) ==
    IF found.err = "EmptyRepositoryError" THEN Raise("EmptyHistoryError")
    ELSE IF found.err # "" THEN Raise(found.err)
    ELSE DecodeAll(found.v)

\* get_last_calculation: EmptyRepositoryError becomes EmptyHistoryError,
\* ValueError and KeyError from from_dict become InvalidCalculationDataError,
\* any other exception propagates as it is.
get_last_calculation(found) ==
    IF found.err = "EmptyRepositoryError"
    THEN [calc |-> NoCalc, err |-> "EmptyHistoryError"]
    ELSE IF found.err # "" THEN [calc |-> NoCalc, err |-> found.err]
    ELSE LET d == from_dict(found.v[1])
         IN IF d.err \in {"ValueError", "KeyError"}
            THEN [calc |-> NoCalc, err |-> "InvalidCalculationDataError"]
            ELSE d

\* filter_calculations_by_operation, given what get_all_calculations did:
\* EmptyHistoryError gives [], any other exception propagates.
filter_calculations_by_operation(all_calculations, operation_name) ==
    IF all_calculations.err = "EmptyHistoryError" THEN Ok(<<>>)
    ELSE IF all_calculations.err # "" THEN all_calculations
    ELSE Ok(SelectSeq(all_calculations.v,
                      LAMBDA calc : calc.operation_name = operation_name))

\* filter_calculations_by_result: calc.result == result.
filter_calculations_by_result(all_calculations, result) ==
    IF all_calculations.err = "EmptyHistoryError" THEN Ok(<<>>)
    ELSE IF all_calculations.err # "" THEN all_calculations
    ELSE Ok(SelectSeq(all_calculations.v, LAMBDA calc : DecEq(calc.result, result)))

\* A variant of add_calculation that keeps the repository's exception to
\* itself.
add_calculationSwallows(err) == ""

\* add_calculation and clear_history: "except RepositoryIOError: raise";
\* whatever the repository raises reaches the caller.
add_calculation(err) == err

clear_history(err) == err

\* delete_calculation: ItemNotFoundError becomes CalculationNotFoundError,
\* RepositoryIOError is raised again, anything else propagates.
delete_calculation(err) ==
    IF err = "ItemNotFoundError" THEN "CalculationNotFoundError" ELSE err

(***************************************************************************)
(* Arithmetic commands: BinaryOperationExecutor over Calculator over the   *)
(* history service.                                                        *)
(***************************************************************************)
\* What execute prints.
ResultMessage == "Result of"
InvalidInputMessage == "Invalid input. Please enter valid decimal numbers."
ZeroDivisionMessage == "The result of division by zero is not defined."
ErrorMessage == "An error occurred."

\* _get_decimal_input: Decimal(input(prompt)), [ok, v].
_get_decimal_input(raw_input) == ParseDecimal(raw_input)

\* A variant of the first try block that reads both lines before it
\* converts either.
ReadBothOperands(in1, in2) ==
    LET a == _get_decimal_input(in1)
        b == _get_decimal_input(in2)
    IN IF a.ok /\ b.ok THEN [b |-> b.v, a |-> a.v, ok |-> TRUE, reads |-> 2]
       ELSE [b |-> None, a |-> None, ok |-> FALSE, reads |-> 2]

\* The first try block of execute: the second line is read only when the
\* first converted; InvalidOperation ends the command.
ReadOperands(in1, in2) ==
    LET a == _get_decimal_input(in1)
        b == _get_decimal_input(in2)
    IN IF ~a.ok THEN [b |-> None, a |-> None, ok |-> FALSE, reads |-> 1]
       ELSE IF ~b.ok THEN [b |-> None, a |-> None, ok |-> FALSE, reads |-> 2]
       ELSE [b |-> b.v, a |-> a.v, ok |-> TRUE, reads |-> 2]

\* A variant of Calculator.perform_operation that hands the calculation to
\* the history before it performs it.
calculator_record_first(name, a, b, id, now) ==
    LET done == perform_operation(NewCalculation(id, name, <<a, b>>, now))
    IN [calc |-> done.calc, ok |-> done.ok, add |-> TRUE]

\* Calculator.perform_operation: Calculation(operation, a, b), then
\* calculation.perform_operation(), then history.add_calculation; an
\* exception of the operation leaves before the add.
calculator_perform_operation(name, a, b, id, now) ==
    LET done == perform_operation(NewCalculation(id, name, <<a, b>>, now))
    IN [calc |-> done.calc, ok |-> done.ok, add |-> done.ok]

\* execute up to the call of history.add_calculation: the lines waiting on
\* the input, how many were read, whether the Calculation was created and
\* the function invoked, the exception raised so far ("" for none) and
\* whether add_calculation is called.
execute(name, in1, in2, id, now) ==
    LET rd == ReadOperands(in1, in2)
        p  == calculator_perform_operation(name, rd.a, rd.b, id, now)
    IN IF ~rd.ok
       THEN [calc |-> NoCalc, b |-> in2, a |-> in1, add |-> FALSE, name |-> name,
             err |-> "InvalidOperation", reads |-> rd.reads,
             invoked |-> FALSE, created |-> FALSE]
       ELSE [calc |-> p.calc, b |-> in2, a |-> in1, add |-> p.add, name |-> name,
             err |-> IF p.ok THEN "" ELSE "ZeroDivisionError", reads |-> rd.reads,
             invoked |-> TRUE, created |-> TRUE]

\* The message execute prints for the way Calculator.perform_operation ended.
Printed(err) == IF err = "" THEN ResultMessage
                ELSE IF err = "InvalidOperation" THEN InvalidInputMessage
                ELSE IF err = "ZeroDivisionError" THEN ZeroDivisionMessage
                ELSE ErrorMessage

(***************************************************************************)
(* Inputs.                                                                 *)
(***************************************************************************)
\* Ids of calculations (uuid4 strings: never numeric text).
Ids == {<<"a">>, <<"b">>}

\* An id no calculation has.
OtherId == <<"z">>

\* Clock readings, one with and one without microseconds.
T1 == [s |-> 1, us |-> 0]
T2 == [s |-> 2, us |-> 5]

\* What a user can ask for: operation, two operands, clock reading.
Zero == <<ADD, Dec(1, 0), Dec(-1, 0), T1>>
Three == <<ADD, Dec(1, 0), Dec(2, 0), T2>>
Tenth == <<DIVIDE, Dec(1, 0), Dec(10, 0), T2>>
Half == <<DIVIDE, Dec(1, 0), Dec(2, 0), T1>>

Executed(id, q) == perform_operation(NewCalculation(id, q[1], <<q[2], q[3]>>, q[4])).calc

\* The calculations handed to add_calculation: executed ones with results
\* 0, 0.1, 3 and 0.5, and one whose result is still absent.  Each id comes
\* with several contents, so that records of one id can be told apart.
Calcs == {Executed(<<"a">>, Zero), Executed(<<"a">>, Tenth),
          NewCalculation(<<"a">>, ADD, <<Dec(1, 0), Dec(-1, 0)>>, T1),
          Executed(<<"b">>, Three), Executed(<<"b">>, Half)}

\* The predicates handed to filter.
Predicates == {[field |-> "id", value |-> StrCell(id)] : id \in Ids \cup {OtherId}}
              \cup {[field |-> "operation_name", value |-> StrCell(ADD)]}

(***************************************************************************)
(* State.  One MemoryRepository and one CSVRepository are driven with the  *)
(* same calls.                                                             *)
(***************************************************************************)
VARIABLES
    memItems,   \* MemoryRepository._items
    csvDf,      \* CSVRepository._df
    file,       \* the CSV file at file_path
    gen,        \* number of configure_repositories calls so far
    expMem,     \* history: calculations added to the memory store and not
                \* since deleted (every record of the id) or cleared
    expCsv,     \* history: the same for the CSV store, each with the
                \* configuration it was added under and the record as the
                \* current instance received it (added or loaded)
    last,       \* the last call: its operation and id argument, how it ended
                \* in either variant ("" or the exception raised) and by how
                \* much it changed the number of records held
    report,     \* what the last arithmetic command read, called and printed
    commands,   \* CommandHandler._commands: name -> executable
    loop,       \* App.run: <<command being handled, position of the memory
                \* variant, position of the CSV variant>>
    out,        \* what the last operation did that can be observed from
                \* outside, in the order it did it
    instances,  \* the instances dict of each singleton class
    pc,         \* where each concurrent writer of the CSV file is in add
    context     \* what the singleton instances refer to and hold:
                \* <<number of the CalculationHistory that Calculator._history
                \* is, the repository of each CalculationHistory made, the
                \* records of each repository made, the rows of the file,
                \* the calculations reported, the newest HistoryCommand>>

vars == <<memItems, csvDf, file, gen, expMem, expCsv, last, report,
          commands, loop, out, instances, context, pc>>

\* The state of the command handler, the command loop and the singletons;
\* the specifications of the repositories and the history leave it alone.
appVars == <<commands, loop, out, instances, context, pc>>

Call(op, id, memErr, csvErr) ==
    [id |-> id, op |-> op, memErr |-> memErr, csvErr |-> csvErr,
     memDelta |-> Len(memItems') - Len(memItems),
     csvDelta |-> Len(csvDf'.rows) - Len(csvDf.rows)]

NoId == StrCell(<<>>)

\* History bookkeeping: a successful delete(id) leaves no record of that id.
Without(exp, id) == SelectSeq(exp, LAMBDA x : x.id # id)

WithoutCsv(exp, id) == SelectSeq(exp, LAMBDA x : x.calc.id # id)

\* History bookkeeping: a new instance starts from the records it loaded.
Rebase(exp, loaded) ==
    [i \in 1..Len(exp) |-> IF i <= Len(loaded) THEN [exp[i] EXCEPT !.row = loaded[i]]
                           ELSE exp[i]]

\* No CommandHandler, no App.run and no singleton instance yet.
NoCommands == <<>>

NotRunning == <<<<>>, "start", "start">>

Singletons == {"CSVRepository", "MemoryRepository", "CalculationHistory", "Calculator"}

\* instances[cls] is <<number of instances of cls constructed so far, whether
\* the dict holds one (the newest), the arguments it was constructed with>>.
NoInstance == <<0, FALSE, <<>>>>

NoInstances == [cls \in Singletons |-> NoInstance]

\* No Calculator, no CalculationHistory, no repository and no HistoryCommand
\* has been made, the file at the default path has no rows and nothing has
\* been reported.
Repositories == {"CSVRepository", "MemoryRepository"}

NoViewer == <<0, <<>>>>

NoContext == <<0, <<>>, [cls \in Repositories |-> <<>>], <<>>, <<>>, NoViewer>>

\* No arithmetic command has run.
NoReport == [b |-> <<>>, a |-> <<>>, name |-> <<>>, result |-> None, reads |-> 0,
             invoked |-> FALSE, created |-> FALSE, mem |-> "", csv |-> ""]

Init ==
    /\ file \in {NoFile, GarbageFile}
    /\ csvDf = CsvInit(file)
    /\ memItems = MemInit
    /\ gen = 1
    /\ expMem = <<>>
    /\ expCsv = <<>>
    /\ last = [id |-> NoId, op |-> "init", memErr |-> "", csvErr |-> "",
               memDelta |-> 0, csvDelta |-> 0]
    /\ report = NoReport
    /\ commands = NoCommands
    /\ loop = NotRunning
    /\ out = <<>>
    /\ instances = NoInstances
    /\ context = NoContext
    /\ pc = <<>>

\* CalculationHistory.add_calculation(c) -> repository.add(to_dict(c))
AddCalculation(c) ==
    LET item == to_dict(c)
        r    == CsvAdd(csvDf, file, item)
    IN /\ Len(memItems) < MaxLen
       /\ Len(csvDf.rows) < MaxLen
       /\ memItems' = MemAdd(memItems, item)
       /\ csvDf' = r.df
       /\ file' = r.file
       /\ expMem' = Append(expMem, c)
       /\ expCsv' = Append(expCsv, [calc |-> c, gen |-> gen, row |-> item])
       /\ last' = Call("add", c.id, "", r.err)
       /\ UNCHANGED <<gen, report, appVars>>

\* repository.delete(id)
Delete(id) ==
    LET m == MemDelete(memItems, id)
        r == CsvDelete(csvDf, file, id)
    IN /\ memItems' = m.items
       /\ csvDf' = r.df
       /\ file' = r.file
       /\ expMem' = Without(expMem, id)
       /\ expCsv' = WithoutCsv(expCsv, id)
       /\ last' = Call("delete", id, m.err, r.err)
       /\ UNCHANGED <<gen, report, appVars>>

\* repository.clear()
Clear ==
    LET r == CsvClear(csvDf, file)
    IN /\ memItems' = MemClear(memItems)
       /\ csvDf' = r.df
       /\ file' = r.file
       /\ expMem' = <<>>
       /\ expCsv' = <<>>
       /\ last' = Call("clear", NoId, "", r.err)
       /\ UNCHANGED <<gen, report, appVars>>

\* repository.get_all()
GetAll ==
    /\ UNCHANGED <<memItems, csvDf, file, gen, expMem, expCsv, report, appVars>>
    /\ last' = Call("get_all", NoId, MemGetAll(memItems).err, CsvGetAll(csvDf).err)

\* repository.get_by_id(id)
GetById(id) ==
    /\ UNCHANGED <<memItems, csvDf, file, gen, expMem, expCsv, report, appVars>>
    /\ last' = Call("get_by_id", id, MemGetById(memItems, id).err, CsvGetById(csvDf, id).err)

\* repository.get_last()
GetLast ==
    /\ UNCHANGED <<memItems, csvDf, file, gen, expMem, expCsv, report, appVars>>
    /\ last' = Call("get_last", NoId, MemGetLast(memItems).err, CsvGetLast(csvDf).err)

\* repository.filter(predicate): never raises.
Filter(p) ==
    /\ UNCHANGED <<memItems, csvDf, file, gen, expMem, expCsv, report, appVars>>
    /\ last' = Call("filter", NoId, "", "")

\* ApplicationContext.configure_repositories: the three singletons are
\* reset and the repositories constructed again, the CSV one over the same
\* file path.
Configure ==
    /\ gen < MaxGen
    /\ gen' = gen + 1
    /\ memItems' = MemInit
    /\ csvDf' = CsvInit(file)
    /\ expMem' = <<>>
    /\ expCsv' = Rebase(expCsv, csvDf'.rows)
    /\ last' = Call("configure", NoId, "", "")
    /\ UNCHANGED <<file, report, appVars>>

\* MemoryRepository() / CSVRepository(file_path) while the instance exists:
\* get_instance returns it as it is.
Construct ==
    /\ UNCHANGED <<memItems, csvDf, file, gen, expMem, expCsv, report, appVars>>
    /\ last' = Call("construct", NoId, "", "")

Next ==
    \/ \E c \in Calcs : AddCalculation(c)
    \/ \E id \in Ids \cup {OtherId} : Delete(StrCell(id))
    \/ Clear
    \/ GetAll
    \/ \E id \in Ids \cup {OtherId} : GetById(StrCell(id))
    \/ GetLast
    \/ \E p \in Predicates : Filter(p)
    \/ Configure
    \/ Construct

Spec == Init /\ [][Next]_vars

(***************************************************************************)
(* Properties.                                                             *)
(***************************************************************************)
RowsOf(exp) == [i \in 1..Len(exp) |-> to_dict(exp[i])]

RowsOfCsv(exp) == [i \in 1..Len(exp) |-> exp[i].row]

\* What get_all owes a caller when the store should hold the records rows.
Owed(rows) == IF Len(rows) = 0 THEN Raise("EmptyRepositoryError") ELSE Ok(rows)

OwedLast(rows) == IF Len(rows) = 0 THEN Raise("EmptyRepositoryError")
                  ELSE Ok(<<rows[Len(rows)]>>)

\* C1: in both variants, right after delete(id) has returned, get_by_id(id)
\* raises ItemNotFoundError, duplicate ids included.
C1_DeleteThenGetByIdFails ==
    last.op = "delete" =>
        /\ last.memErr = "" => MemGetById(memItems, last.id).err = "ItemNotFoundError"
        /\ last.csvErr = "" => CsvGetById(csvDf, last.id).err = "ItemNotFoundError"

\* C1, the CSV variant alone.
C1_CsvDeleteThenGetByIdFails ==
    (last.op = "delete" /\ last.csvErr = "") =>
        CsvGetById(csvDf, last.id).err = "ItemNotFoundError"

HasId(rows, id) == \E i \in 1..Len(rows) : PyEq(rows[i].id, id)

\* C2: in both variants and every state, the empty store included, delete(id)
\* for an id no stored record has raises ItemNotFoundError and nothing else,
\* and leaves the records as they were.
C2_DeleteAbsentStep ==
    last'.op = "delete" =>
        /\ ~HasId(memItems, last'.id) =>
               last'.memErr = "ItemNotFoundError" /\ memItems' = memItems
        /\ ~HasId(csvDf.rows, last'.id) =>
               /\ last'.csvErr = "ItemNotFoundError"
               /\ csvDf'.rows = csvDf.rows
               /\ file' = file

C2_DeleteAbsentRaisesNotFound == [][C2_DeleteAbsentStep]_vars

\* C2, the memory variant alone.
C2_MemDeleteAbsentRaisesNotFound ==
    [][last'.op = "delete" /\ ~HasId(memItems, last'.id) =>
           last'.memErr = "ItemNotFoundError" /\ memItems' = memItems]_vars

\* C3: in both variants, after any add, delete and clear calls, get_all
\* returns exactly the records added and not since deleted or cleared, in
\* the order they were added, and raises EmptyRepositoryError when there are
\* none.
C3_GetAllInInsertionOrder ==
    /\ MemGetAll(memItems) = Owed(RowsOf(expMem))
    /\ CsvGetAll(csvDf) = Owed(RowsOfCsv(expCsv))

\* C3, the CSV variant alone.
C3_CsvGetAllInInsertionOrder == CsvGetAll(csvDf) = Owed(RowsOfCsv(expCsv))

\* C4: in both variants, get_last returns the most recently added record not
\* since deleted or cleared, and raises EmptyRepositoryError exactly when no
\* record is held.
C4_GetLastIsMostRecent ==
    /\ MemGetLast(memItems) = OwedLast(RowsOf(expMem))
    /\ CsvGetLast(csvDf) = OwedLast(RowsOfCsv(expCsv))

\* C4, the CSV variant alone.
C4_CsvGetLastIsMostRecent == CsvGetLast(csvDf) = OwedLast(RowsOfCsv(expCsv))

Stored(all) == IF all.err = "" THEN all.v ELSE <<>>

Matching(rows, p) == SelectSeq(rows, LAMBDA r : Holds(p, r))

\* C6: in both variants and every state, filter(predicate) returns exactly
\* the stored records that satisfy the predicate, in order, and nothing when
\* none does or the store is empty.
C6_FilterReturnsMatches ==
    \A p \in Predicates :
        /\ MemFilter(memItems, p) = Matching(Stored(MemGetAll(memItems)), p)
        /\ CsvFilter(csvDf, p) = Matching(Stored(CsvGetAll(csvDf)), p)

\* C6: filter never raises and does not modify the store.
C6_FilterStep ==
    last'.op = "filter" =>
        /\ last'.memErr = "" /\ last'.csvErr = ""
        /\ memItems' = memItems /\ csvDf' = csvDf /\ file' = file

C6_FilterExactAndPure == [](C6_FilterReturnsMatches) /\ [][C6_FilterStep]_vars

\* A filter call on stores where one predicate selects some but not all
\* records and another selects none.
C6_Witness ==
    /\ last.op = "filter"
    /\ \E p \in Predicates :
           /\ 0 < Len(MemFilter(memItems, p)) /\ Len(MemFilter(memItems, p)) < Len(memItems)
           /\ 0 < Len(CsvFilter(csvDf, p)) /\ Len(CsvFilter(csvDf, p)) < Len(csvDf.rows)
    /\ \E p \in Predicates :
           MemFilter(memItems, p) = <<>> /\ CsvFilter(csvDf, p) = <<>>

IsAppend(before, after, item) ==
    /\ Len(after) = Len(before) + 1
    /\ SubSeq(after, 1, Len(before)) = before
    /\ after[Len(after)] = item

\* C7: in both variants add(record) is not rejected when the id is already
\* stored: the record goes to the end, the count grows by one and the
\* records stored before keep their content and order.
C7_AddStep ==
    last'.op = "add" =>
        /\ last'.memErr = "" /\ last'.csvErr = ""
        /\ Len(expMem') > 0 /\ Len(expCsv') > 0
        /\ IsAppend(memItems, memItems', to_dict(expMem'[Len(expMem')]))
        /\ IsAppend(csvDf.rows, csvDf'.rows, to_dict(expCsv'[Len(expCsv')].calc))

C7_AddAppends == [][C7_AddStep]_vars

Count(rows, id) == Cardinality({i \in 1..Len(rows) : PyEq(rows[i].id, id)})

\* An add of a record whose id both stores already held.
C7_Witness ==
    /\ last.op = "add"
    /\ Count(memItems, last.id) > 1
    /\ Count(csvDf.rows, last.id) > 1

\* C8: CSV variant: after every add, clear or delete that returns, the file
\* holds the records of the in-memory table, in content and order.
C8_FileMatchesTable ==
    (last.op \in {"add", "clear", "delete"} /\ last.csvErr = "") =>
        file = to_csv(csvDf)

\* A delete that left records behind, in an instance that loaded its table.
C8_Witness ==
    /\ last.op = "delete" /\ last.csvErr = ""
    /\ gen > 1
    /\ Len(file.rows) > 0

\* C9: CSV variant: an instance constructed later over the same file path
\* shows through get_all every record added through earlier instances and
\* not since deleted or cleared, in order (and raises EmptyRepositoryError
\* when there is none).
C9_Persistence ==
    LET all == CsvGetAll(csvDf)
    IN gen > 1 =>
        IF Len(expCsv) = 0 THEN all.err = "EmptyRepositoryError"
        ELSE /\ all.err = ""
             /\ Len(all.v) = Len(expCsv)
             /\ \A i \in 1..Len(expCsv) : all.v[i].id = expCsv[i].calc.id

\* The third instance reads records added through the first and the second.
C9_Witness ==
    /\ gen = 3
    /\ last.op = "get_all" /\ last.csvErr = ""
    /\ \E i, j \in 1..Len(expCsv) : expCsv[i].gen = 1 /\ expCsv[j].gen = 2

\* Equality of two calculations in id, operation_name, operands, result and
\* timestamp; decimals compare as decimals.
SameCalculation(x, y) ==
    /\ x.id = y.id
    /\ x.operation_name = y.operation_name
    /\ Len(x.operands) = Len(y.operands)
    /\ \A i \in 1..Len(x.operands) : i <= Len(y.operands) => DecEq(x.operands[i], y.operands[i])
    /\ (x.result = None /\ y.result = None) \/ DecEq(x.result, y.result)
    /\ x.timestamp = y.timestamp

RoundTrips(found, c) ==
    LET r == get_calculation_by_id(found)
    IN r.err = "" /\ SameCalculation(r.calc, c)

\* C10, memory variant: get_calculation_by_id(c.id) returns a calculation
\* equal to c, for every c added whose id no other stored record has.
C10_MemRoundTrip ==
    \A i \in 1..Len(expMem) :
        Count(memItems, expMem[i].id) = 1 =>
            RoundTrips(MemGetById(memItems, expMem[i].id), expMem[i])

\* C10, CSV variant, records added through the current instance.
C10_CsvRoundTrip ==
    \A i \in 1..Len(expCsv) :
        (Count(csvDf.rows, expCsv[i].calc.id) = 1 /\ expCsv[i].gen = gen) =>
            RoundTrips(CsvGetById(csvDf, expCsv[i].calc.id), expCsv[i].calc)

\* C10, CSV variant, records the current instance loaded from the file.
C10_CsvReloadRoundTrip ==
    \A i \in 1..Len(expCsv) :
        (Count(csvDf.rows, expCsv[i].calc.id) = 1 /\ expCsv[i].gen < gen) =>
            RoundTrips(CsvGetById(csvDf, expCsv[i].calc.id), expCsv[i].calc)

\* C10: the round trip through a backend is lossless in the memory variant,
\* in the CSV variant, and in a CSV instance that loaded the record from the
\* file after a lifecycle reset.
C10_HistoryRoundTrip ==
    C10_MemRoundTrip /\ C10_CsvRoundTrip /\ C10_CsvReloadRoundTrip

(***************************************************************************)
(* The codec on its own.  One Calculation at a time is encoded with        *)
(* to_dict; expMem holds the calculation and memItems the dict produced.   *)
(***************************************************************************)
\* Largest number of operands of a calculation handed to the codec.
MaxOperands == 2

\* Operand and result values: zero, a negative integer, a fraction and a
\* fraction with a trailing zero.
CodecDecimals == {Dec(0, 0), Dec(-1, 0), Dec(5, -1), Dec(150, -2)}

CodecOperands == UNION {[1..n -> CodecDecimals] : n \in 1..MaxOperands}

\* Calculations of every registered operation, with one or more operands and
\* a result that is absent or a decimal.
CodecCalcs ==
    {[NewCalculation(<<"a">>, name, args, now) EXCEPT !.result = r] :
        name \in operation_registry, args \in CodecOperands,
        r \in {None, Dec(0, 0), Dec(5, -1)}, now \in {T1, T2}}

\* to_dict(c)
Encode(c) ==
    /\ memItems' = <<to_dict(c)>>
    /\ expMem' = <<c>>
    /\ UNCHANGED <<csvDf, file, gen, expCsv, report, appVars>>
    /\ last' = Call("to_dict", c.id, "", "")

CodecNext == \E c \in CodecCalcs : Encode(c)

CodecSpec == Init /\ [][CodecNext]_vars

\* C11: for every calculation c of a registered operation with one or more
\* decimal operands and a result absent or decimal, from_dict(to_dict(c))
\* succeeds and equals c in id, operation_name, operands, result and
\* timestamp; the result is written as the empty string exactly when it is
\* absent, and the empty string is read back as absent.
C11_CodecRoundTrip ==
    \A i \in 1..Len(expMem) :
        LET d == from_dict(memItems[i])
        IN /\ d.err = ""
           /\ SameCalculation(d.calc, expMem[i])
           /\ (expMem[i].result = None) <=> (memItems[i].result = StrCell(<<>>))
           /\ (memItems[i].result = StrCell(<<>>)) => (d.calc.result = None)

\* A calculation with a single operand and the result zero has been encoded.
C11_Witness ==
    /\ Len(expMem) = 1
    /\ Len(expMem[1].operands) = 1
    /\ expMem[1].result = Dec(0, 0)
    /\ memItems[1].result = StrCell(<<"0">>)

(***************************************************************************)
(* The history service over arbitrary backend contents.  The repositories  *)
(* are written both through the service and directly (the repository is a  *)
(* public attribute of the service and the CSV file outlives it), so the   *)
(* records held need not be ones to_dict produced.                         *)
(***************************************************************************)
\* Two well-formed records and records that from_dict cannot decode.
Good1 == to_dict(Executed(<<"a">>, Three))
Good2 == to_dict(Executed(<<"b">>, Half))
BadOperand == [Good1 EXCEPT !.operands = StrCell(<<"1", ",", "x">>)]
UnknownOperation == [Good2 EXCEPT !.operation_name = StrCell(<<"p", "o", "w">>)]
BadResult == [Good1 EXCEPT !.result = StrCell(<<"x">>)]
BadTimestamp == [Good2 EXCEPT !.timestamp = StrCell(<<"x">>)]
NoOperands == [Good1 EXCEPT !.operands = MissingCell]

Items == {Good1, Good2, BadOperand, UnknownOperation, BadResult, BadTimestamp, NoOperands}

HasAllKeys(item) == \A f \in DOMAIN item : item[f].t # "missing"

\* repository.add(item), by the service or by any other holder of the
\* repository.  A dict that lacks a key is added to the CSV variant only
\* once its frame has the columns.
RepositoryAdd(item) ==
    LET r == CsvAdd(csvDf, file, CsvRow(item))
    IN /\ Len(memItems) < MaxLen
       /\ Len(csvDf.rows) < MaxLen
       /\ HasAllKeys(item) \/ csvDf.cols
       /\ memItems' = MemAdd(memItems, item)
       /\ csvDf' = r.df
       /\ file' = r.file
       /\ UNCHANGED <<gen, expMem, expCsv, report, appVars>>
       /\ last' = Call("repository.add", item.id, "", r.err)

\* add_calculation(c) while the CSV file cannot be written.
AddCalculationSaveFails(c) ==
    LET item == to_dict(c)
        r    == CsvAddSaveFails(csvDf, file, item)
    IN /\ Len(memItems) < MaxLen
       /\ Len(csvDf.rows) < MaxLen
       /\ memItems' = MemAdd(memItems, item)
       /\ csvDf' = r.df
       /\ file' = r.file
       /\ UNCHANGED <<gen, expMem, expCsv, report, appVars>>
       /\ last' = Call("add_calculation", c.id, add_calculation(""), add_calculation(r.err))

\* delete_calculation(id)
DeleteCalculation(id) ==
    LET m == MemDelete(memItems, id)
        r == CsvDelete(csvDf, file, id)
    IN /\ memItems' = m.items
       /\ csvDf' = r.df
       /\ file' = r.file
       /\ UNCHANGED <<gen, expMem, expCsv, report, appVars>>
       /\ last' = Call("delete_calculation", id, delete_calculation(m.err),
                       delete_calculation(r.err))

\* clear_history()
ClearHistory ==
    LET r == CsvClear(csvDf, file)
    IN /\ memItems' = MemClear(memItems)
       /\ csvDf' = r.df
       /\ file' = r.file
       /\ UNCHANGED <<gen, expMem, expCsv, report, appVars>>
       /\ last' = Call("clear_history", NoId, clear_history(""), clear_history(r.err))

\* get_all_calculations()
GetAllCalculations ==
    /\ UNCHANGED <<memItems, csvDf, file, gen, expMem, expCsv, report, appVars>>
    /\ last' = Call("get_all_calculations", NoId,
                    get_all_calculations(MemGetAll(memItems)).err,
                    get_all_calculations(CsvGetAll(csvDf)).err)

\* get_calculation_by_id(id)
GetCalculationById(id) ==
    /\ UNCHANGED <<memItems, csvDf, file, gen, expMem, expCsv, report, appVars>>
    /\ last' = Call("get_calculation_by_id", id,
                    get_calculation_by_id(MemGetById(memItems, id)).err,
                    get_calculation_by_id(CsvGetById(csvDf, id)).err)

\* get_last_calculation()
GetLastCalculation ==
    /\ UNCHANGED <<memItems, csvDf, file, gen, expMem, expCsv, report, appVars>>
    /\ last' = Call("get_last_calculation", NoId,
                    get_last_calculation(MemGetLast(memItems)).err,
                    get_last_calculation(CsvGetLast(csvDf)).err)

\* filter_calculations_by_operation(operation_name)
FilterByOperation(operation_name) ==
    /\ UNCHANGED <<memItems, csvDf, file, gen, expMem, expCsv, report, appVars>>
    /\ last' = Call("filter_calculations_by_operation", NoId,
                    filter_calculations_by_operation(
                        get_all_calculations(MemGetAll(memItems)), operation_name).err,
                    filter_calculations_by_operation(
                        get_all_calculations(CsvGetAll(csvDf)), operation_name).err)

\* filter_calculations_by_result(result)
FilterByResult(result) ==
    /\ UNCHANGED <<memItems, csvDf, file, gen, expMem, expCsv, report, appVars>>
    /\ last' = Call("filter_calculations_by_result", NoId,
                    filter_calculations_by_result(
                        get_all_calculations(MemGetAll(memItems)), result).err,
                    filter_calculations_by_result(
                        get_all_calculations(CsvGetAll(csvDf)), result).err)

\* Arguments of the two filters.
FilterNames == {ADD, DIVIDE}
FilterResults == {Dec(3, 0), Dec(5, -1)}

HistoryNext ==
    \/ \E item \in Items : RepositoryAdd(item)
    \/ AddCalculationSaveFails(Executed(<<"b">>, Three))
    \/ \E id \in Ids \cup {OtherId} : DeleteCalculation(StrCell(id))
    \/ ClearHistory
    \/ GetAllCalculations
    \/ \E id \in Ids \cup {OtherId} : GetCalculationById(StrCell(id))
    \/ GetLastCalculation
    \/ \E name \in FilterNames : FilterByOperation(name)
    \/ \E result \in FilterResults : FilterByResult(result)

HistorySpec == Init /\ [][HistoryNext]_vars

\* The calculations the records decode to, in the order of the records.
RECURSIVE Decodable(_)
Decodable(dicts) ==
    IF Len(dicts) = 0 THEN <<>>
    ELSE (IF from_dict(Head(dicts)).err = "" THEN <<from_dict(Head(dicts)).calc>> ELSE <<>>)
         \o Decodable(Tail(dicts))

\* Every record either decodes or fails with ValueError or KeyError.
OnlyValueAndKeyErrors(dicts) ==
    \A i \in 1..Len(dicts) : from_dict(dicts[i]).err \in {"", "ValueError", "KeyError"}

\* C12: on every non-empty backend content get_all_calculations returns, in
\* backend order, exactly the records that decode, and skips every record
\* that does not decode, whatever the reason (a missing field, a bad operand,
\* an unknown operation name, a non-empty result that is no decimal, an
\* unparsable timestamp); no undecodable record makes the call fail.
C12_GetAllSkipsUndecodable ==
    /\ Len(memItems) > 0 =>
           get_all_calculations(MemGetAll(memItems)) = Ok(Decodable(memItems))
    /\ ~IsEmpty(csvDf) =>
           get_all_calculations(CsvGetAll(csvDf)) = Ok(Decodable(csvDf.rows))

\* The same for the contents whose decode failures are all ValueError or
\* KeyError.
C12_GetAllSkipsValueAndKeyErrors ==
    /\ Len(memItems) > 0 /\ OnlyValueAndKeyErrors(memItems) =>
           get_all_calculations(MemGetAll(memItems)) = Ok(Decodable(memItems))
    /\ ~IsEmpty(csvDf) /\ OnlyValueAndKeyErrors(csvDf.rows) =>
           get_all_calculations(CsvGetAll(csvDf)) = Ok(Decodable(csvDf.rows))


\* The operations of the history service, as recorded in last.op.
HistoryOps == {"add_calculation", "get_all_calculations", "get_calculation_by_id",
               "get_last_calculation", "filter_calculations_by_operation",
               "filter_calculations_by_result", "clear_history", "delete_calculation"}

\* C13: every failure a history service operation ends with is one of the
\* domain errors CalculationNotFoundError, EmptyHistoryError and
\* InvalidCalculationDataError; no exception raised by the backend
\* (ItemNotFoundError, EmptyRepositoryError, RepositoryIOError or any other)
\* reaches the caller.
C13_OnlyDomainErrors ==
    last.op \in HistoryOps =>
        /\ last.memErr \in DomainErrors \cup {""}
        /\ last.csvErr \in DomainErrors \cup {""}

\* The two backend errors the service translates never reach the caller.
C13_TranslatedErrorsNeverEscape ==
    last.op \in HistoryOps =>
        /\ last.memErr \notin {"ItemNotFoundError", "EmptyRepositoryError"}
        /\ last.csvErr \notin {"ItemNotFoundError", "EmptyRepositoryError"}

\* C14: get_all_calculations fails with EmptyHistoryError exactly when the
\* backend holds no records; when it holds records none of which decodes,
\* the call returns the empty list.
C14_EmptyHistoryOnlyWhenEmpty ==
    LET m == get_all_calculations(MemGetAll(memItems))
        c == get_all_calculations(CsvGetAll(csvDf))
    IN /\ (m.err = "EmptyHistoryError") <=> (Len(memItems) = 0)
       /\ (c.err = "EmptyHistoryError") <=> IsEmpty(csvDf)
       /\ Len(memItems) > 0 /\ Decodable(memItems) = <<>> => m = Ok(<<>>)
       /\ ~IsEmpty(csvDf) /\ Decodable(csvDf.rows) = <<>> => c = Ok(<<>>)

\* The first half alone: EmptyHistoryError exactly when the backend is empty.
C14_EmptyHistoryErrorIffEmpty ==
    /\ (get_all_calculations(MemGetAll(memItems)).err = "EmptyHistoryError")
           <=> (Len(memItems) = 0)
    /\ (get_all_calculations(CsvGetAll(csvDf)).err = "EmptyHistoryError")
           <=> IsEmpty(csvDf)

\* What a single-record read owes for the record the repository found.
OwedCalculation(got, found, absent) ==
    IF found.err # "" THEN got.err = absent
    ELSE IF from_dict(found.v[1]).err = "" THEN got = from_dict(found.v[1])
    ELSE got.err = "InvalidCalculationDataError"

\* C15: get_calculation_by_id(id) fails with CalculationNotFoundError when
\* no record has the id and with InvalidCalculationDataError when the record
\* found does not decode; get_last_calculation fails with EmptyHistoryError
\* on an empty history and with InvalidCalculationDataError when the last
\* record does not decode; otherwise each returns the decoded Calculation.
C15_SingleReadsMapToDomainErrors ==
    /\ \A id \in Ids \cup {OtherId} :
          /\ OwedCalculation(get_calculation_by_id(MemGetById(memItems, StrCell(id))),
                             MemGetById(memItems, StrCell(id)), "CalculationNotFoundError")
          /\ OwedCalculation(get_calculation_by_id(CsvGetById(csvDf, StrCell(id))),
                             CsvGetById(csvDf, StrCell(id)), "CalculationNotFoundError")
    /\ OwedCalculation(get_last_calculation(MemGetLast(memItems)),
                       MemGetLast(memItems), "EmptyHistoryError")
    /\ OwedCalculation(get_last_calculation(CsvGetLast(csvDf)),
                       CsvGetLast(csvDf), "EmptyHistoryError")

\* The same where the record found decodes or fails with ValueError or
\* KeyError.
C15_SingleReadsOnValueAndKeyErrors ==
    /\ \A id \in Ids \cup {OtherId} :
          /\ OnlyValueAndKeyErrors(MemGetById(memItems, StrCell(id)).v) =>
                 OwedCalculation(get_calculation_by_id(MemGetById(memItems, StrCell(id))),
                                 MemGetById(memItems, StrCell(id)), "CalculationNotFoundError")
          /\ OnlyValueAndKeyErrors(CsvGetById(csvDf, StrCell(id)).v) =>
                 OwedCalculation(get_calculation_by_id(CsvGetById(csvDf, StrCell(id))),
                                 CsvGetById(csvDf, StrCell(id)), "CalculationNotFoundError")
    /\ OnlyValueAndKeyErrors(MemGetLast(memItems).v) =>
           OwedCalculation(get_last_calculation(MemGetLast(memItems)),
                           MemGetLast(memItems), "EmptyHistoryError")
    /\ OnlyValueAndKeyErrors(CsvGetLast(csvDf).v) =>
           OwedCalculation(get_last_calculation(CsvGetLast(csvDf)),
                           CsvGetLast(csvDf), "EmptyHistoryError")

\* What delete_calculation(id) owes one variant: rows before, rows after and
\* how the call ended.
DeleteOwed(before, after, err, found, id) ==
    IF HasId(before, id)
    THEN /\ err = ""
         /\ ~HasId(after, id)
         /\ found.err = "CalculationNotFoundError"
    ELSE /\ err = "CalculationNotFoundError"
         /\ after = before

C16_DeleteStep ==
    last'.op = "delete_calculation" =>
        /\ DeleteOwed(memItems, memItems', last'.memErr,
                      get_calculation_by_id(MemGetById(memItems', last'.id)), last'.id)
        /\ DeleteOwed(csvDf.rows, csvDf'.rows, last'.csvErr,
                      get_calculation_by_id(CsvGetById(csvDf', last'.id)), last'.id)

\* C16: over either backend, delete_calculation(id) removes the record when
\* one with that id exists, after which neither get_all_calculations nor
\* get_calculation_by_id returns it; when no record has the id, in every
\* reachable state including the empty history, it fails with
\* CalculationNotFoundError and leaves the history unchanged.
C16_DeleteCalculation == [][C16_DeleteStep]_vars

\* The same for a memory store holding at most one record of the id and a
\* CSV store whose frame has columns.
C16_DeleteUniqueIdWithColumns ==
    [][(last'.op = "delete_calculation" /\ csvDf.cols
        /\ Count(memItems, last'.id) <= 1) => C16_DeleteStep]_vars

\* What the filters owe: the decodable calculations that match, in order.
OwedByOperation(dicts, name) ==
    Ok(SelectSeq(Decodable(dicts), LAMBDA calc : calc.operation_name = name))

OwedByResult(dicts, result) ==
    Ok(SelectSeq(Decodable(dicts), LAMBDA calc : DecEq(calc.result, result)))

\* The rows a repository holds, as get_all would hand them over.
HeldBy(found) == IF found.err = "" THEN found.v ELSE <<>>

\* C17: filter_calculations_by_operation(name) and
\* filter_calculations_by_result(value) return exactly the decodable
\* calculations whose operation_name (respectively result) equals the
\* argument, in insertion order; on an empty history and when nothing
\* matches they return the empty list, and they never raise
\* EmptyHistoryError.
C17_FiltersExact ==
    \A found \in {MemGetAll(memItems), CsvGetAll(csvDf)} :
        /\ \A name \in FilterNames :
              filter_calculations_by_operation(get_all_calculations(found), name)
                  = OwedByOperation(HeldBy(found), name)
        /\ \A result \in FilterResults :
              filter_calculations_by_result(get_all_calculations(found), result)
                  = OwedByResult(HeldBy(found), result)

\* The filters never raise EmptyHistoryError, and on contents whose decode
\* failures are ValueError or KeyError they return exactly the matches.
C17_FiltersOnValueAndKeyErrors ==
    \A found \in {MemGetAll(memItems), CsvGetAll(csvDf)} :
        /\ \A name \in FilterNames :
              LET r == filter_calculations_by_operation(get_all_calculations(found), name)
              IN /\ r.err # "EmptyHistoryError"
                 /\ OnlyValueAndKeyErrors(HeldBy(found)) =>
                        r = OwedByOperation(HeldBy(found), name)
        /\ \A result \in FilterResults :
              LET r == filter_calculations_by_result(get_all_calculations(found), result)
              IN /\ r.err # "EmptyHistoryError"
                 /\ OnlyValueAndKeyErrors(HeldBy(found)) =>
                        r = OwedByResult(HeldBy(found), result)

(***************************************************************************)
(* Arithmetic commands on a history that starts empty.  Here expMem and    *)
(* expCsv hold the reports of the commands that printed a result, per      *)
(* variant.                                                                *)
(***************************************************************************)
\* Largest number of records the commands leave in a store.
MaxRecords == 2

\* Lines the user types.
Lines == {<<"2">>, <<"3">>, <<"0">>, <<"x">>}

\* The quotient has at most MaxFrac further digits.
Terminating(name, in1, in2) ==
    LET rd == ReadOperands(in1, in2)
    IN IF name = DIVIDE /\ rd.ok /\ rd.b.c # 0
       THEN \E i \in 0..MaxFrac : (Abs(rd.a.c) * Pow(10, i)) % Abs(rd.b.c) = 0
       ELSE TRUE

\* uuid4 draws an id no earlier Calculation has; which one makes no
\* difference, so the Calculation created over k stored records gets the
\* (k+1)-th of these.
Uuids == <<<<"a">>, <<"b">>, OtherId>>

\* The commands run: every registered operation on every pair of lines, the
\* uuid drawn for the Calculation and the clock reading T1.
Executions ==
    {execute(q[1], q[2], q[3], Uuids[q[4]], T1) :
        q \in {s \in operation_registry \X Lines \X Lines \X (1..Len(Uuids)) :
                  Terminating(s[1], s[2], s[3])}}

\* What one run of BinaryOperationExecutor.execute() does, in the order of
\* its statements: input(a), input(b), Calculation(...), the operation,
\* history.add_calculation, print. err is the exception the run ended with.
Steps(x, err) ==
    LET reads == IF x.reads = 2 THEN << <<"read", "a">>, <<"read", "b">> >>
                 ELSE << <<"read", "a">> >>
    IN IF ~x.created THEN Append(reads, <<"print", InvalidInputMessage>>)
       ELSE reads \o << <<"create", "Calculation">>, <<"invoke", "perform_operation">> >>
                  \o (IF x.add THEN << <<"record", "add_calculation">> >> ELSE <<>>)
                  \o << <<"print", Printed(err)>> >>

\* BinaryOperationExecutor.execute(): x is the command up to
\* history.add_calculation, saves tells whether CSVRepository.add can write
\* the file this time.
ExecuteWith(x, saves) ==
    LET item == to_dict(x.calc)
        r    == IF saves THEN CsvAdd(csvDf, file, item)
                ELSE CsvAddSaveFails(csvDf, file, item)
        mErr == IF x.err # "" THEN x.err ELSE add_calculation("")
        cErr == IF x.err # "" THEN x.err ELSE add_calculation(r.err)
    IN /\ x.add => Len(memItems) < MaxRecords /\ Len(csvDf.rows) < MaxRecords
       /\ x.created => x.calc.id = StrCell(Uuids[Len(memItems) + 1])
       /\ memItems' = IF x.add THEN MemAdd(memItems, item) ELSE memItems
       /\ csvDf' = IF x.add THEN r.df ELSE csvDf
       /\ file' = IF x.add THEN r.file ELSE file
       /\ report' = [b |-> x.b, a |-> x.a, name |-> x.name,
                     result |-> IF x.err = "" THEN x.calc.result ELSE None,
                     reads |-> x.reads, invoked |-> x.invoked, created |-> x.created,
                     mem |-> Printed(mErr), csv |-> Printed(cErr)]
       /\ expMem' = IF mErr = "" THEN Append(expMem, report') ELSE expMem
       /\ expCsv' = IF cErr = "" THEN Append(expCsv, report') ELSE expCsv
       /\ out' = <<Steps(x, mErr), Steps(x, cErr)>>
       /\ UNCHANGED <<pc, context, gen, commands, loop, instances>>
       /\ last' = Call("execute", x.calc.id, mErr, cErr)

\* A command while the CSV file can be written.
Execute(x) == ExecuteWith(x, TRUE)

\* A command that reaches add_calculation while the CSV file cannot be
\* written.
ExecuteSaveFails(x) == x.add /\ ExecuteWith(x, FALSE)

CommandNext ==
    \E x \in Executions :
        \/ Execute(x)
        \/ ExecuteSaveFails(x)

CommandSpec == Init /\ [][CommandNext]_vars


\* The calculations read back are the ones the reports tell of, one per
\* report and in the same order.
Recorded(got, rows, reports) ==
    /\ Len(rows) = Len(reports)
    /\ Len(reports) > 0 =>
           /\ got.err = ""
           /\ Len(got.v) = Len(reports)
           /\ \A i \in 1..Len(reports) :
                 /\ got.v[i].operation_name = reports[i].name
                 /\ Len(got.v[i].operands) = 2
                 /\ DecEq(got.v[i].operands[1], _get_decimal_input(reports[i].a).v)
                 /\ DecEq(got.v[i].operands[2], _get_decimal_input(reports[i].b).v)
                 /\ DecEq(got.v[i].result, reports[i].result)

\* C18: after any sequence of arithmetic commands on a history that starts
\* empty, the history holds exactly one record per command that reported a
\* result, in the order of the commands, each with the registered name of
\* the function as operation_name, the two inputs in input order as operands
\* and the value reported as result; nothing else changes the history.
C18_OneRecordPerResult ==
    /\ Recorded(get_all_calculations(MemGetAll(memItems)), memItems, expMem)
    /\ Recorded(get_all_calculations(CsvGetAll(csvDf)), csvDf.rows, expCsv)

\* The same for the memory variant alone.
C18_MemOneRecordPerResult ==
    Recorded(get_all_calculations(MemGetAll(memItems)), memItems, expMem)

\* The command divides by zero: both lines convert and the second is zero.
DividesByZero(r) ==
    /\ r.name = DIVIDE
    /\ _get_decimal_input(r.a).ok
    /\ _get_decimal_input(r.b).ok
    /\ _get_decimal_input(r.b).v.c = 0

C20_InvalidInputAborts ==
    [][(last'.op = "execute"
        /\ (~_get_decimal_input(report'.a).ok \/ ~_get_decimal_input(report'.b).ok)) =>
          /\ report'.mem = InvalidInputMessage
          /\ report'.csv = InvalidInputMessage
          /\ ~report'.invoked
          /\ ~report'.created
          /\ report'.result = None
          /\ memItems' = memItems
          /\ csvDf' = csvDf
          /\ file' = file
          /\ ~_get_decimal_input(report'.a).ok => report'.reads = 1]_vars

\* A command whose first line does not convert, on a history that holds a
\* record.
C20_Witness ==
    /\ last.op = "execute"
    /\ ~_get_decimal_input(report.a).ok
    /\ report.mem = InvalidInputMessage
    /\ report.reads = 1
    /\ Len(memItems) > 0
    /\ Len(csvDf.rows) > 0


\* The place of a step in the order read, create, invoke, record, print.
Rank(step) ==
    CASE step[1] = "read" -> 1
      [] step[1] = "create" -> 2
      [] step[1] = "invoke" -> 3
      [] step[1] = "record" -> 4
      [] step[1] = "print" -> 5

\* The steps are in that order, none is taken twice, and the run ends with
\* the one line it prints.
InOrder(tr) ==
    /\ Len(tr) > 0
    /\ \A i, j \in 1..Len(tr) :
          i < j => /\ Rank(tr[i]) <= Rank(tr[j])
                   /\ tr[i] # tr[j]
                   /\ tr[i][1] = tr[j][1] => tr[i][1] = "read"
    /\ \A i \in 1..Len(tr) : tr[i][1] = "print" <=> i = Len(tr)

ResultReported(tr) == tr[Len(tr)] = <<"print", ResultMessage>>

Has(tr, kind) == \E i \in 1..Len(tr) : tr[i][1] = kind

\* The record of the last command is the newest one of the store.
MemPersisted ==
    /\ Len(memItems) > 0
    /\ memItems[Len(memItems)].id = last.id

CsvPersisted ==
    /\ Len(csvDf.rows) > 0
    /\ csvDf.rows[Len(csvDf.rows)].id = last.id
    /\ file = _save_to_csv(csvDf)

\* C21: every arithmetic command reads its operands, invokes the function,
\* records the calculation and reports, in this order and each step at most
\* once, and ends with exactly one line; when that line is the result the
\* record is already in the store (and, for the CSV variant, in the file);
\* when the invocation fails the line is a message, no result, and nothing
\* is recorded.
C21_CommandOrder ==
    last.op = "execute" =>
        /\ InOrder(out[1]) /\ InOrder(out[2])
        /\ ResultReported(out[1]) =>
               Has(out[1], "invoke") /\ Has(out[1], "record") /\ MemPersisted
        /\ ResultReported(out[2]) =>
               Has(out[2], "invoke") /\ Has(out[2], "record") /\ CsvPersisted
        /\ \A v \in 1..2 :
               /\ Has(out[v], "invoke") => Len(SelectSeq(out[v], LAMBDA s : s[1] = "read")) = 2
               /\ Has(out[v], "record") => Has(out[v], "invoke")
               /\ (report.invoked /\ last.memErr = "ZeroDivisionError") =>
                      /\ ~ResultReported(out[v])
                      /\ ~Has(out[v], "record")
                      /\ last.memDelta = 0 /\ last.csvDelta = 0

\* A second command has reported its result in both variants.
C21_Witness ==
    /\ last.op = "execute"
    /\ ResultReported(out[1]) /\ ResultReported(out[2])
    /\ Len(csvDf.rows) = 2

\* A command whose invocation failed has printed its one message.
C21_FailedWitness ==
    /\ last.op = "execute"
    /\ report.invoked /\ last.memErr = "ZeroDivisionError"
    /\ out[2][Len(out[2])] = <<"print", ZeroDivisionMessage>>


(***************************************************************************)
(* The command handler.  A command name is a Python string, a sequence of   *)
(* one-character strings; an executable is named by its class.             *)
(***************************************************************************)

\* The characters of the names, in code point order.
Alphabet == <<"0", "1", "2", "3", "4", "5", "6", "7", "8", "9", "_",
              "a", "b", "c", "d", "e", "f", "g", "h", "i", "j", "k", "l", "m",
              "n", "o", "p", "q", "r", "s", "t", "u", "v", "w", "x", "y", "z">>

Ord(ch) == CHOOSE i \in 1..Len(Alphabet) : Alphabet[i] = ch

\* s < t for Python strings.
StrLess(s, t) ==
    \/ Len(s) < Len(t) /\ \A i \in 1..Len(s) : s[i] = t[i]
    \/ \E k \in 1..Len(s) :
          /\ k <= Len(t)
          /\ \A i \in 1..(k - 1) : s[i] = t[i]
          /\ Ord(s[k]) < Ord(t[k])

Range(seq) == {seq[i] : i \in 1..Len(seq)}

\* sorted(names): each name of the set once, in ascending order.
RECURSIVE sorted(_)
sorted(names) ==
    IF names = {} THEN <<>>
    ELSE LET least == CHOOSE n \in names : \A m \in names \ {n} : StrLess(n, m)
         IN <<least>> \o sorted(names \ {least})

\* difflib.SequenceMatcher.find_longest_match(alo, ahi, blo, bhi) without
\* junk: the longest block a[i..i+k-1] = b[j..j+k-1] within the two ranges,
\* of these the one that starts earliest in a, and of these the one that
\* starts earliest in b; <<alo, blo, 0>> when no character matches.
find_longest_match(a, b, alo, ahi, blo, bhi) ==
    LET blocks == {m \in (alo..ahi) \X (blo..bhi) \X (1..Len(a)) :
                     /\ m[1] + m[3] - 1 <= ahi
                     /\ m[2] + m[3] - 1 <= bhi
                     /\ \A d \in 0..(m[3] - 1) : a[m[1] + d] = b[m[2] + d]}
        Better(m, n) == \/ m[3] > n[3]
                        \/ m[3] = n[3] /\ m[1] < n[1]
                        \/ m[3] = n[3] /\ m[1] = n[1] /\ m[2] < n[2]
    IN IF blocks = {} THEN <<alo, blo, 0>>
       ELSE CHOOSE m \in blocks : \A n \in blocks \ {m} : Better(m, n)

\* The sizes of the matching blocks around the longest match m: m itself,
\* then the same to its left and to its right.
RECURSIVE MatchingSize(_, _, _, _, _, _)
MatchingSizeAround(a, b, alo, ahi, blo, bhi, m) ==
    IF m[3] = 0 THEN 0
    ELSE m[3] + MatchingSize(a, b, alo, m[1] - 1, blo, m[2] - 1)
              + MatchingSize(a, b, m[1] + m[3], ahi, m[2] + m[3], bhi)

\* The sum of the sizes of get_matching_blocks() within the two ranges.
MatchingSize(a, b, alo, ahi, blo, bhi) ==
    MatchingSizeAround(a, b, alo, ahi, blo, bhi,
                       find_longest_match(a, b, alo, ahi, blo, bhi))

\* SequenceMatcher.ratio() = 2.0 * matches / (len(a) + len(b)), kept as the
\* fraction <<numerator, denominator>>; 1.0 for two empty strings.
ratio(a, b) ==
    IF Len(a) + Len(b) = 0 THEN <<1, 1>>
    ELSE <<2 * MatchingSize(a, b, 1, Len(a), 1, Len(b)), Len(a) + Len(b)>>

\* p >= q and p > q for fractions.
AtLeast(p, q) == p[1] * q[2] >= q[1] * p[2]

Above(p, q) == p[1] * q[2] > q[1] * p[2]

\* cutoff=0.6 of _suggest_command.
cutoff == <<6, 10>>

\* heapq.nlargest(1, result) over the pairs (score, x): the greatest score,
\* and of equal scores the greater name.
nlargest(result, score) ==
    IF result = {} THEN <<>>
    ELSE <<CHOOSE x \in result :
              \A y \in result \ {x} :
                 \/ Above(score[x], score[y])
                 \/ /\ score[x][1] * score[y][2] = score[y][1] * score[x][2]
                    /\ StrLess(y, x)>>

\* s.set_seq2(word); s.set_seq1(x); s.ratio() for each possibility x.
Scores(word, possibilities) == [x \in possibilities |-> ratio(x, word)]

\* The possibilities that score at least the cutoff, and the best of them.
AtCutoff(score) == nlargest({x \in DOMAIN score : AtLeast(score[x], cutoff)}, score)

\* A variant of get_close_matches that takes the greatest (score, x)
\* whatever the score.
get_close_matchesNoCutoff(word, possibilities) ==
    nlargest(possibilities, Scores(word, possibilities))

\* difflib.get_close_matches(word, possibilities, n=1, cutoff=0.6): seq2 is
\* the word, seq1 each possibility; heapq.nlargest(1, ...) takes the
\* greatest (score, x), so of equal scores the greater name.
get_close_matches(word, possibilities) == AtCutoff(Scores(word, possibilities))

\* CommandHandler.get_commands: sorted(self._commands.keys()).
get_commands(cmds) == sorted(DOMAIN cmds)

\* return matches[0] if matches else raise SuggestionFailed.
Suggestion(matches) ==
    IF Len(matches) > 0 THEN [ok |-> TRUE, v |-> matches[1]]
    ELSE [ok |-> FALSE, v |-> <<>>]

\* CommandHandler._suggest_command: get_close_matches of the name typed
\* among get_commands().
_suggest_command(cmds, invalid_command) ==
    Suggestion(get_close_matches(invalid_command, Range(get_commands(cmds))))



\* The names the application registers.
NameHelp == <<"h", "e", "l", "p">>

NameExit == <<"e", "x", "i", "t">>

NameGreet == <<"g", "r", "e", "e", "t">>

NameHistory == <<"h", "i", "s", "t", "o", "r", "y">>

NameClearHistory == <<"c", "l", "e", "a", "r", "_", "h", "i", "s", "t", "o", "r", "y">>

NameDeleteHistory == <<"d", "e", "l", "e", "t", "e", "h", "i", "s", "t", "o", "r", "y">>

\* CommandHandler.__init__: self._commands = {"help": HelpCommand(self)}.
CommandHandlerInit == [n \in {NameHelp} |-> "HelpCommand"]

\* A variant of _register that keeps no other command.
_registerAlone(cmds, command_name, command) ==
    [n \in {command_name} |-> command]

\* CommandHandler._register: self._commands[command_name] = command.
_registerKeepsFirst(cmds, command_name, command) ==
    [n \in DOMAIN cmds \cup {command_name} |->
        IF n \in DOMAIN cmds THEN cmds[n] ELSE command]

_register(cmds, command_name, command) ==
    [n \in DOMAIN cmds \cup {command_name} |->
        IF n = command_name THEN command ELSE cmds[n]]

\* What a command does is a sequence of events <<kind, name, text>>:
\* <<"execute", name, class>> for execute() of the command registered
\* under name, <<"print", <<>>, line>> for a line printed, <<"list", name, "">>
\* for a line of the help listing, <<"not found", name, "">> and
\* <<"suggest", name, "">> for the two lines of handle_invalid_command (name
\* is the name typed, and the name suggested), <<"raise", <<>>, exception>>
\* for an exception that leaves handle.
Printing(line) == <<"print", <<>>, line>>

Raising(exception) == <<"raise", <<>>, exception>>

\* HelpCommand.execute: "Available commands:" and the names of
\* get_commands(), sorted, one per line.
HelpCommandListsBuiltIn(cmds) ==
    <<Printing("Available commands:")>>
    \o [i \in 1..Len(sorted({NameHelp})) |-> <<"list", sorted({NameHelp})[i], "">>]

HelpCommand(cmds) ==
    LET names == sorted(Range(get_commands(cmds)))
    IN <<Printing("Available commands:")>>
       \o [i \in 1..Len(names) |-> <<"list", names[i], "">>]

\* The two branches of handle_invalid_command: the suggestion, or (except
\* SuggestionFailed) the not-found line and then the command registered as
\* "help" (self._commands["help"]: KeyError when there is none).
\* ran[class] is <<events, exception>> of that class's execute().
SuggestOrHelp(cmds, command_name, ran, suggested) ==
    LET fallback == ran[cmds[NameHelp]]
    IN IF suggested.ok THEN << <<"suggest", suggested.v, "">> >>
       ELSE IF NameHelp \notin DOMAIN cmds
       THEN << <<"not found", command_name, "">>, Raising("KeyError") >>
       ELSE << <<"not found", command_name, "">>, <<"execute", NameHelp, cmds[NameHelp]>> >>
            \o fallback[1]
            \o (IF fallback[2] # "" THEN <<Raising(fallback[2])>> ELSE <<>>)

\* CommandHandler.handle_invalid_command
handle_invalid_command(cmds, command_name, ran) ==
    SuggestOrHelp(cmds, command_name, ran, _suggest_command(cmds, command_name))

\* CommandHandler.handle: command = self._commands.get(command_name, None);
\* command.execute() inside try; except AttributeError (None has no
\* execute, or execute() itself raised it): handle_invalid_command.
handle(cmds, command_name, ran) ==
    LET found    == command_name \in DOMAIN cmds
        executed == IF found
                    THEN << <<"execute", command_name, cmds[command_name]>> >>
                         \o ran[cmds[command_name]][1]
                    ELSE <<>>
        raised   == IF found THEN ran[cmds[command_name]][2] ELSE "AttributeError"
    IN executed
       \o (IF raised = "AttributeError"
           THEN handle_invalid_command(cmds, command_name, ran)
           ELSE IF raised # "" THEN <<Raising(raised)>>
           ELSE <<>>)

\* Executables: the built-in help, two commands whose execute() returns and
\* one whose execute() raises AttributeError.
Executables == {"HelpCommand", "First", "Second", "Faulty"}

Ran(cmds) ==
    [exe \in Executables |->
        CASE exe = "HelpCommand" -> <<HelpCommand(cmds), "">>
          [] exe = "Faulty" -> <<<<>>, "AttributeError">>
          [] OTHER -> <<<<>>, "">>]

\* Names registered and names typed.
Registered == {<<"a", "d", "d">>, <<"a", "n", "d">>, NameExit, NameHelp}

Typed == Registered \cup {<<"a", "d">>, <<"x", "y", "z">>, <<"z", "z", "z", "9">>,
                          <<"e", "x", "t">>, <<"h", "e", "l", "l", "o">>,
                          <<"h", "e", "l", "x", "y", "z">>}

\* handler = CommandHandler()
NewCommandHandler ==
    /\ commands = NoCommands
    /\ commands' = CommandHandlerInit
    /\ out' = <<>>
    /\ UNCHANGED <<pc, context, memItems, csvDf, file, gen, expMem, expCsv, report, loop, instances>>
    /\ last' = Call("CommandHandler", NoId, "", "")

\* handler._register(command_name, command)
Register(command_name, command) ==
    /\ commands # NoCommands
    /\ commands' = _register(commands, command_name, command)
    /\ out' = << <<"register", command_name, command>> >>
    /\ UNCHANGED <<pc, context, memItems, csvDf, file, gen, expMem, expCsv, report, loop, instances>>
    /\ last' = Call("register", StrCell(command_name), "", "")

\* handler.handle(command_name)
Handle(command_name) ==
    /\ commands # NoCommands
    /\ out' = handle(commands, command_name, Ran(commands))
    /\ UNCHANGED <<pc, context, memItems, csvDf, file, gen, expMem, expCsv, report, commands, loop,
                   instances>>
    /\ last' = Call("handle", StrCell(command_name), "", "")

\* handler.get_commands()
GetCommands ==
    /\ commands # NoCommands
    /\ out' = [i \in 1..Len(get_commands(commands)) |->
                  <<"list", get_commands(commands)[i], "">>]
    /\ UNCHANGED <<pc, context, memItems, csvDf, file, gen, expMem, expCsv, report, commands, loop,
                   instances>>
    /\ last' = Call("get_commands", NoId, "", "")

HandlerNext ==
    \/ NewCommandHandler
    \/ \E n \in Registered, e \in Executables : Register(n, e)
    \/ \E n \in Typed : Handle(n)
    \/ GetCommands

HandlerSpec == Init /\ [][HandlerNext]_vars


\* The name typed in the last handle, the events of one kind and the names
\* they carry.
TypedName == last.id.s

Events(kind) == SelectSeq(out, LAMBDA ev : ev[1] = kind)

Listed == [i \in 1..Len(Events("list")) |-> Events("list")[i][2]]

\* C23: handling a registered name executes the executable registered under
\* it exactly once, executes nothing else and prints neither the not-found
\* line nor a suggestion; handling an unregistered name executes nothing
\* but, possibly, what is registered as help.
C23_ResolveRegistered ==
    last.op = "handle" =>
        IF TypedName \in DOMAIN commands
        THEN /\ Events("execute") = << <<"execute", TypedName, commands[TypedName]>> >>
             /\ Events("not found") = <<>>
             /\ Events("suggest") = <<>>
        ELSE \/ Events("execute") = <<>>
             \/ Events("execute") = << <<"execute", NameHelp, commands[NameHelp]>> >>

\* The same for executables whose execute() does not raise AttributeError.
C23_ResolveRegisteredReturning ==
    (last.op = "handle" /\ TypedName \in DOMAIN commands
       /\ commands[TypedName] # "Faulty")
    => C23_ResolveRegistered

\* A registered name has been handled and a suggestion printed.
C23_SuggestionForRegistered ==
    /\ last.op = "handle"
    /\ TypedName \in DOMAIN commands
    /\ Events("suggest") # <<>>

\* C24: on a miss with some registered name at least as similar as the
\* cutoff, the handler prints one suggestion that names a registered name no
\* other is closer than, and executes nothing, help included; on a miss
\* with no such name it prints the not-found line and executes what is
\* registered as help.  "ad" with "add" and not "and" registered is answered
\* with the suggestion "add", "xyz" and "zzz9" with not-found and help.
C24_SuggestOrHelp ==
    (last.op = "handle" /\ TypedName \notin DOMAIN commands) =>
        LET close == {n \in DOMAIN commands : AtLeast(ratio(n, TypedName), cutoff)}
        IN /\ close # {} =>
                 /\ Len(out) = 1
                 /\ out[1][1] = "suggest"
                 /\ out[1][2] \in close
                 /\ \A n \in DOMAIN commands :
                       AtLeast(ratio(out[1][2], TypedName), ratio(n, TypedName))
           /\ close = {} =>
                 /\ Len(out) >= 2
                 /\ out[1] = <<"not found", TypedName, "">>
                 /\ out[2] = <<"execute", NameHelp, commands[NameHelp]>>
                 /\ Events("suggest") = <<>>
                 /\ commands[NameHelp] = "HelpCommand" => Listed = get_commands(commands)
           /\ (TypedName = <<"a", "d">> /\ <<"a", "d", "d">> \in DOMAIN commands
                 /\ <<"a", "n", "d">> \notin DOMAIN commands)
                 => out = << <<"suggest", <<"a", "d", "d">>, "">> >>
           /\ TypedName \in {<<"x", "y", "z">>, <<"z", "z", "z", "9">>}
                 => out[1][1] = "not found"

\* "ad" has been answered with the suggestion "add".
C24_Witness ==
    /\ last.op = "handle"
    /\ TypedName = <<"a", "d">>
    /\ out = << <<"suggest", <<"a", "d", "d">>, "">> >>

\* "xyz" has been answered with not-found and the help listing while "add"
\* and "exit" are registered.
C24_FallbackWitness ==
    /\ last.op = "handle"
    /\ TypedName = <<"x", "y", "z">>
    /\ {<<"a", "d", "d">>, NameExit} \subseteq DOMAIN commands
    /\ out[1][1] = "not found"
    /\ Listed # <<>>

\* C25: register(name, executable) maps the name to that executable,
\* whatever it was mapped to before, and leaves every other name's mapping
\* as it was; handling and listing leave all mappings alone; handling a
\* registered name executes the executable registered last under it.
C25_LastWriteWins ==
    [][/\ last'.op = "register" =>
              /\ commands'[last'.id.s] = out'[1][3]
              /\ DOMAIN commands' = DOMAIN commands \cup {last'.id.s}
              /\ \A n \in DOMAIN commands \ {last'.id.s} : commands'[n] = commands[n]
       /\ last'.op \in {"handle", "get_commands"} => commands' = commands
       /\ (last'.op = "handle" /\ last'.id.s \in DOMAIN commands) =>
              \A i \in 1..Len(out') :
                  out'[i][1] = "execute" => out'[i][3] = commands[last'.id.s]]_vars

\* "help", registered by the constructor, has been registered again with
\* another executable.
C25_Witness ==
    /\ last.op = "register"
    /\ TypedName = NameHelp
    /\ out = << <<"register", NameHelp, "First">> >>
    /\ commands[NameHelp] = "First"

\* The lines of a listing: every registered name, each once, ascending.
SortedListing(names) ==
    /\ {names[i] : i \in 1..Len(names)} = DOMAIN commands
    /\ Len(names) = Cardinality(DOMAIN commands)
    /\ \A i, j \in 1..Len(names) : i < j => StrLess(names[i], names[j])

\* C26: whenever the built-in help runs it lists every name registered at
\* that moment, "help" and the names registered after construction
\* included, each once and in sorted order, and get_commands returns the
\* same sequence.
C26_HelpListsAll ==
    /\ (last.op = "handle" /\ <<"execute", NameHelp, "HelpCommand">> \in Range(out)) =>
           /\ SortedListing(Listed)
           /\ NameHelp \in Range(Listed)
           /\ Listed = get_commands(commands)
    /\ last.op = "get_commands" =>
           /\ SortedListing(Listed)
           /\ Len(Listed) = Len(out)

\* help has listed add, and, exit, help, all but help registered after
\* construction.
C26_Witness ==
    /\ last.op = "handle"
    /\ TypedName = NameHelp
    /\ Listed = << <<"a", "d", "d">>, <<"a", "n", "d">>, NameExit, NameHelp >>


(***************************************************************************)
(* The singleton decorator.  An instance is named by its class and its      *)
(* number among the instances of the class; a call gives                    *)
(* <<instances afterwards, number of the instance returned, exception>>.    *)
(***************************************************************************)
MaxInstances == 2

NoArgs == <<>>

Arguments == {NoArgs, <<"argument">>}

RECURSIVE get_instance(_, _, _)
RECURSIVE __init__(_, _, _)

\* cls(*args, **kwargs): MemoryRepository takes no argument;
\* CalculationHistory() without a repository calls CSVRepository(),
\* Calculator() without a history calls CalculationHistory().  The result
\* is <<instances afterwards, exception>>.
__init__(inst, cls, args) ==
    CASE cls = "MemoryRepository" ->
             <<inst, IF args # NoArgs THEN "TypeError" ELSE "">>
      [] cls = "CSVRepository" -> <<inst, "">>
      [] cls = "CalculationHistory" ->
             IF args # NoArgs THEN <<inst, "">>
             ELSE <<get_instance(inst, "CSVRepository", NoArgs)[1],
                    get_instance(inst, "CSVRepository", NoArgs)[3]>>
      [] cls = "Calculator" ->
             IF args # NoArgs THEN <<inst, "">>
             ELSE <<get_instance(inst, "CalculationHistory", NoArgs)[1],
                    get_instance(inst, "CalculationHistory", NoArgs)[3]>>

\* A variant of get_instance that constructs again when arguments are given.
get_instanceReconstructs(inst, cls, args) ==
    IF inst[cls][2] /\ args = NoArgs THEN <<inst, inst[cls][1], "">>
    ELSE LET made == __init__(inst, cls, args)
         IN IF made[2] # "" THEN <<made[1], 0, made[2]>>
            ELSE <<[made[1] EXCEPT ![cls] = <<inst[cls][1] + 1, TRUE, args>>],
                   inst[cls][1] + 1, "">>

\* get_instance: instances[cls] when there is one (instance.configure, which
\* no singleton class has, raises AttributeError, which is passed over);
\* on KeyError cls(*args, **kwargs), stored as instances[cls].
get_instance(inst, cls, args) ==
    IF inst[cls][2] THEN <<inst, inst[cls][1], "">>
    ELSE LET made == __init__(inst, cls, args)
         IN IF made[2] # "" THEN <<made[1], 0, made[2]>>
            ELSE <<[made[1] EXCEPT ![cls] = <<inst[cls][1] + 1, TRUE, args>>],
                   inst[cls][1] + 1, "">>

\* reset_instance: del instances[cls]; KeyError is passed over.
reset_instance(inst, cls) ==
    IF inst[cls][2] THEN [inst EXCEPT ![cls] = <<inst[cls][1], FALSE, <<>>>>]
    ELSE inst

\* ApplicationContext._reset_repository_singletons
_reset_repository_singletons(inst) ==
    reset_instance(reset_instance(reset_instance(inst, "CSVRepository"),
                                  "MemoryRepository"), "CalculationHistory")

\* ApplicationContext.configure_repositories: reset, _create_repository,
\* CalculationHistory(repository=repository).
configure_repositories(inst, repository_type) ==
    LET cleared    == _reset_repository_singletons(inst)
        repository == IF repository_type = "csv"
                      THEN get_instance(cleared, "CSVRepository", <<"argument">>)
                      ELSE get_instance(cleared, "MemoryRepository", NoArgs)
    IN get_instance(repository[1], "CalculationHistory", <<"argument">>)

Within(inst) == \A cls \in Singletons : inst[cls][1] <= MaxInstances

\* cls(*args): out is <<call, class, arguments, number returned>>.
GetInstance(cls, args) ==
    LET r == get_instance(instances, cls, args)
    IN /\ Within(r[1])
       /\ instances' = r[1]
       /\ out' = <<"get_instance", cls, args, r[2]>>
       /\ UNCHANGED <<pc, context, memItems, csvDf, file, gen, expMem, expCsv, report, commands, loop>>
       /\ last' = Call("get_instance", NoId, r[3], r[3])

\* cls.reset_instance()
ResetInstance(cls) ==
    /\ instances' = reset_instance(instances, cls)
    /\ out' = <<"reset_instance", cls, NoArgs, 0>>
    /\ UNCHANGED <<pc, context, memItems, csvDf, file, gen, expMem, expCsv, report, commands, loop>>
    /\ last' = Call("reset_instance", NoId, "", "")

\* ApplicationContext.configure_repositories(repository_type, file_path)
ConfigureRepositories(repository_type) ==
    LET r == configure_repositories(instances, repository_type)
    IN /\ Within(r[1])
       /\ instances' = r[1]
       /\ out' = <<"configure_repositories", "CalculationHistory", <<"argument">>, r[2]>>
       /\ UNCHANGED <<pc, context, memItems, csvDf, file, gen, expMem, expCsv, report, commands, loop>>
       /\ last' = Call("configure_repositories", NoId, r[3], r[3])

SingletonNext ==
    \/ \E cls \in Singletons, args \in Arguments : GetInstance(cls, args)
    \/ \E cls \in Singletons : ResetInstance(cls)
    \/ \E repository_type \in {"csv", "memory"} : ConfigureRepositories(repository_type)

SingletonSpec == Init /\ [][SingletonNext]_vars

\* C28: a construction call on a class that has an instance returns that
\* instance, whatever the arguments, and leaves every class's instance as it
\* is; the instance of a class changes only by a construction while the
\* class has none, which makes the next one; a construction that returns on
\* a class with no instance returns the new one; reset_instance on a class
\* with no instance changes nothing, on a class with one it drops only that.
C28_SingletonLifecycle ==
    [][\A cls \in Singletons :
          /\ (last'.op = "get_instance" /\ out'[2] = cls /\ instances[cls][2]) =>
                 /\ last'.memErr = ""
                 /\ out'[4] = instances[cls][1]
                 /\ instances' = instances
          /\ (last'.op = "get_instance" /\ out'[2] = cls /\ ~instances[cls][2]
                /\ last'.memErr = "") =>
                 /\ out'[4] = instances[cls][1] + 1
                 /\ instances'[cls] = <<out'[4], TRUE, out'[3]>>
          /\ instances'[cls][1] # instances[cls][1] =>
                 /\ last'.op \in {"get_instance", "configure_repositories"}
                 /\ instances'[cls][1] = instances[cls][1] + 1
                 /\ instances'[cls][2]
                 /\ ~instances[cls][2] \/ last'.op = "configure_repositories"
          /\ (instances'[cls][2] /\ instances[cls][2]
                /\ last'.op # "configure_repositories") => instances'[cls] = instances[cls]
          /\ (last'.op = "reset_instance" /\ out'[2] = cls) =>
                 /\ ~instances'[cls][2]
                 /\ ~instances[cls][2] => instances' = instances
                 /\ \A other \in Singletons \ {cls} : instances'[other] = instances[other]
      ]_vars

\* The second instance of CalculationHistory, made after a reset, has been
\* returned by a construction call with arguments other than the ones it
\* was made with.
C28_Witness ==
    /\ last.op = "get_instance"
    /\ out = <<"get_instance", "CalculationHistory", <<"argument">>, 2>>
    /\ instances["CalculationHistory"] = <<2, TRUE, NoArgs>>

\* reset_instance has been called on a class with no instance.
C28_ResetWitness ==
    /\ last.op = "reset_instance"
    /\ out[2] = "Calculator"
    /\ instances["Calculator"] = NoInstance


\* A file that exists, is not empty and makes read_csv raise: garbage, or
\* the bare newline written for a DataFrame without columns.
Unparsable(f) == f.kind = "garbage" \/ (f.kind = "table" /\ ~f.cols)

Causes == {Cause("PermissionError"), Cause("OSError")}

\* The exception a call ends with whose err is given and whose save may
\* have raised e.
Raised(err, wrapped) ==
    IF err = "" THEN NoException
    ELSE IF err = "RepositoryIOError" THEN wrapped
    ELSE Cause(err)

StorageAdd(item) ==
    LET r == CsvAdd(csvDf, file, item)
    IN /\ Len(csvDf.rows) < MaxLen
       /\ csvDf' = r.df
       /\ file' = r.file
       /\ out' = <<NoException, NoException>>
       /\ UNCHANGED <<pc, context, memItems, gen, expMem, expCsv, report, commands, loop, instances>>
       /\ last' = Call("add", item.id, "", r.err)

StorageAddSaveFails(item, e) ==
    LET r == CsvAddSaveFails(csvDf, file, item)
    IN /\ Len(csvDf.rows) < MaxLen
       /\ csvDf' = r.df
       /\ file' = r.file
       /\ out' = <<Raised(r.err, AddError(e)), e>>
       /\ UNCHANGED <<pc, context, memItems, gen, expMem, expCsv, report, commands, loop, instances>>
       /\ last' = Call("add", item.id, "", r.err)

StorageClear ==
    LET r == CsvClear(csvDf, file)
    IN /\ csvDf' = r.df
       /\ file' = r.file
       /\ out' = <<NoException, NoException>>
       /\ UNCHANGED <<pc, context, memItems, gen, expMem, expCsv, report, commands, loop, instances>>
       /\ last' = Call("clear", NoId, "", r.err)

StorageClearSaveFails(e) ==
    LET r == CsvClearSaveFails(csvDf, file)
    IN /\ csvDf' = r.df
       /\ file' = r.file
       /\ out' = <<Raised(r.err, ClearError(e)), e>>
       /\ UNCHANGED <<pc, context, memItems, gen, expMem, expCsv, report, commands, loop, instances>>
       /\ last' = Call("clear", NoId, "", r.err)

StorageDelete(id) ==
    LET r == CsvDelete(csvDf, file, id)
    IN /\ csvDf' = r.df
       /\ file' = r.file
       /\ out' = <<Raised(r.err, NoException), NoException>>
       /\ UNCHANGED <<pc, context, memItems, gen, expMem, expCsv, report, commands, loop, instances>>
       /\ last' = Call("delete", id, "", r.err)

\* The file cannot be written; to_csv raises e if delete gets that far.
StorageDeleteSaveFails(id, e) ==
    LET r == CsvDeleteSaveFails(csvDf, file, id)
    IN /\ csvDf' = r.df
       /\ file' = r.file
       /\ out' = <<Raised(r.err, DeleteError(id, e)),
                   IF r.err = "RepositoryIOError" THEN e ELSE NoException>>
       /\ UNCHANGED <<pc, context, memItems, gen, expMem, expCsv, report, commands, loop, instances>>
       /\ last' = Call("delete", id, "", r.err)

StorageNext ==
    \/ \E item \in {Good1, Good2} : StorageAdd(item)
    \/ \E item \in {Good1, Good2}, e \in Causes : StorageAddSaveFails(item, e)
    \/ StorageClear
    \/ \E e \in Causes : StorageClearSaveFails(e)
    \/ \E id \in Ids \cup {OtherId} : StorageDelete(StrCell(id))
    \/ \E id \in Ids \cup {OtherId}, e \in Causes : StorageDeleteSaveFails(StrCell(id), e)

StorageSpec == Init /\ [][StorageNext]_vars

\* The exception at the end of the chain of errors.
RECURSIVE Root(_)
Root(e) == IF e[3] = <<>> THEN e ELSE Root(e[3])

\* C30: whenever to_csv raises during add, clear or delete, the call ends
\* with a RepositoryIOError, and with no exception of another type, that
\* carries a description of the operation and, through its error, the
\* exception to_csv raised; the file is as it was.
C30_WriteFailureIsRepositoryIOError ==
    [][(last'.op \in {"add", "clear", "delete"} /\ out'[2] # NoException) =>
           /\ last'.csvErr = "RepositoryIOError"
           /\ out'[1][1] = "RepositoryIOError"
           /\ out'[1][2] # <<>>
           /\ out'[1][3] # <<>>
           /\ Root(out'[1]) = out'[2]
           /\ file' = file]_vars

\* A delete that dropped a row has failed to write the file.
C30_Witness ==
    /\ last.op = "delete"
    /\ last.csvDelta = -1
    /\ out[2] = Cause("PermissionError")
    /\ out[1] = DeleteError(last.id, Cause("PermissionError"))

\* A clear has failed to write the file.
C30_ClearWitness ==
    /\ last.op = "clear"
    /\ out[2] = Cause("OSError")
    /\ out[1][1] = "RepositoryIOError"
    /\ Len(file.rows) > 0


(***************************************************************************)
(* The application: App.__init__, App.run and the commands of the package  *)
(* src.command.commands, over the memory variant and the CSV variant side  *)
(* by side.  Both read the same lines; out is <<events of the memory       *)
(* variant, events of the CSV variant>> for the last step.  A variant whose *)
(* loop has ended takes no further step.                                   *)
(***************************************************************************)
\* pkgutil.iter_modules: the modules of the package with the Command
\* subclass each defines, in the order of their names.
CommandModules ==
    <<<<ADD, "AddCommand">>, <<NameClearHistory, "ClearHistoryCommand">>,
      <<NameDeleteHistory, "DeleteHistoryCommand">>, <<DIVIDE, "DivideCommand">>,
      <<NameExit, "ExitCommand">>, <<NameGreet, "GreetCommand">>,
      <<NameHistory, "HistoryCommand">>, <<MULTIPLY, "MultiplyCommand">>,
      <<SUBTRACT, "SubtractCommand">>>>

\* CommandHandler._load_commands: _register(module name, obj()) for each.
RECURSIVE _load_commands(_, _)
_load_commands(cmds, modules) ==
    IF modules = <<>> THEN cmds
    ELSE _load_commands(_register(cmds, Head(modules)[1], Head(modules)[2]), Tail(modules))

\* What execute() of a command is: <<events, exception it raises>>.
Returns(events) == <<events, "">>

Raises(exception) == <<<<>>, exception>>

\* A variant of ExitCommand.execute that returns.
ExitCommandReturns == Returns(<<>>)

\* ExitCommand.execute: raise ExitException().
ExitCommand == Raises("ExitException")

\* GreetCommand.execute
GreetCommand == Returns(<<Printing("Hello, World!")>>)

\* The arithmetic commands: BinaryOperationExecutor.execute catches every
\* Exception of its second try block.
ArithmeticCommand(x, err) ==
    Returns([i \in 1..Len(Steps(x, err)) |->
                <<Steps(x, err)[i][1], <<>>, Steps(x, err)[i][2]>>])

\* HistoryCommand.execute: the listing, "History is empty." for
\* EmptyHistoryError; any other exception leaves execute.
HistoryCommand(got) ==
    IF got.err = ""
    THEN Returns(<<Printing("Calculation History:")>>
                 \o [i \in 1..Len(got.v) |-> <<"record", got.v[i].id.s, "">>])
    ELSE IF got.err = "EmptyHistoryError" THEN Returns(<<Printing("History is empty.")>>)
    ELSE Raises(got.err)

\* ClearHistoryCommand.execute: clear_history() outside any try.
ClearHistoryCommand(err) ==
    IF err = "" THEN Returns(<<Printing("Calculation history has been cleared.")>>)
    ELSE Raises(err)

\* A call of a method of the history service: <<"call", argument, method>>.
Calling(method, argument) == <<"call", argument, method>>

\* str(e) of the exceptions DeleteHistoryCommand.execute prints.
NotFoundMessage == "Error: No calculation with ID found."

InvalidDataMessage == "Error: Invalid calculation data"

\* A variant of DeleteHistoryCommand.execute that looks the id up with
\* get_calculation_by_id first and deletes only what it found.
DeleteHistoryCommandLooksUp(calc_id, err) ==
    IF calc_id = <<>>
    THEN Returns(<<Printing("Error: Please provide a calculation ID to delete.")>>)
    ELSE IF err = ""
         THEN Returns(<<Calling("get_calculation_by_id", calc_id),
                        Calling("delete_calculation", calc_id),
                        Printing("Calculation with ID has been deleted.")>>)
    ELSE IF err = "CalculationNotFoundError"
         THEN Returns(<<Calling("get_calculation_by_id", calc_id), Printing(NotFoundMessage)>>)
    ELSE <<<<Calling("get_calculation_by_id", calc_id),
             Calling("delete_calculation", calc_id)>>, err>>

\* DeleteHistoryCommand.execute: ValueError for an empty id, else
\* self.history.delete_calculation(calc_id); ValueError,
\* CalculationNotFoundError and InvalidCalculationDataError are printed, any
\* other exception leaves execute.
DeleteHistoryCommand(calc_id, err) ==
    IF calc_id = <<>>
    THEN Returns(<<Printing("Error: Please provide a calculation ID to delete.")>>)
    ELSE IF err = ""
         THEN Returns(<<Calling("delete_calculation", calc_id),
                        Printing("Calculation with ID has been deleted.")>>)
    ELSE IF err = "CalculationNotFoundError"
         THEN Returns(<<Calling("delete_calculation", calc_id), Printing(NotFoundMessage)>>)
    ELSE IF err \in {"ValueError", "InvalidCalculationDataError"}
         THEN Returns(<<Calling("delete_calculation", calc_id), Printing(InvalidDataMessage)>>)
    ELSE <<<<Calling("delete_calculation", calc_id)>>, err>>

\* The exception that left handle, "" when it returned.
Escaped(events) ==
    IF Len(events) > 0 /\ events[Len(events)][1] = "raise" THEN events[Len(events)][3]
    ELSE ""

\* One turn of the while loop of App.run after input(): handle(command);
\* ExitException and EOFError print the farewell and break.
run(events) ==
    IF Escaped(events) \in {"ExitException", "EOFError"}
    THEN Append(events, Printing("Exiting the application..."))
    ELSE events

\* Where App.run is after a turn that left these events: at the next
\* input(), past the loop, or left by an exception nothing catches.
After(pos, events) ==
    IF pos # "handling" THEN pos
    ELSE IF \E i \in 1..Len(events) : events[i][1] = "raise"
         THEN IF \E i \in 1..Len(events) :
                    events[i][1] = "raise" /\ events[i][3] \in {"ExitException", "EOFError"}
              THEN "exited" ELSE "crashed"
    ELSE "reading"

\* The lines typed at the prompts of the commands and at "Enter a command: ".
LoopLines == {<<"2">>, <<"0">>, <<"x">>}

\* The arithmetic command typed is divide: with these lines it reports a
\* result, meets a zero divisor, or rejects its input.
LoopExecutions ==
    {execute(DIVIDE, q[1], q[2], Uuids[q[3]], T1) :
        q \in LoopLines \X LoopLines \X (1..Len(Uuids))}

TypedCommands == {DIVIDE, NameHistory, NameClearHistory, NameDeleteHistory,
                  NameExit, NameGreet, NameHelp, <<"a", "d">>, <<"x", "y", "z">>}

TypedIds == {<<"a">>, <<"z">>, <<>>}

\* uuid4: an id no stored record has.
Fresh(id) ==
    /\ \A i \in 1..Len(memItems) : memItems[i].id # id
    /\ \A i \in 1..Len(csvDf.rows) : csvDf.rows[i].id # id

Handling(v) == loop[v] = "handling"

\* execute() of every class that handle can reach when body is execute()
\* of the command typed.
RanOf(cls, body) ==
    [c \in {cls, "HelpCommand"} |->
        IF c = "HelpCommand" THEN Returns(HelpCommand(commands)) ELSE body]

\* The turn of both variants.
Turn(cls, memBody, csvBody) ==
    /\ Handling(2) \/ Handling(3)
    /\ out' = <<IF Handling(2) THEN run(handle(commands, loop[1], RanOf(cls, memBody)))
                ELSE <<>>,
                IF Handling(3) THEN run(handle(commands, loop[1], RanOf(cls, csvBody)))
                ELSE <<>>>>
    /\ loop' = <<loop[1], After(loop[2], out'[1]), After(loop[3], out'[2])>>

\* App.run up to the while loop: load_commands.
RunStart ==
    /\ commands # NoCommands
    /\ loop = NotRunning
    /\ commands' = _load_commands(commands, CommandModules)
    /\ loop' = <<<<>>, "reading", "reading">>
    /\ out' = <<<<>>, <<>>>>
    /\ UNCHANGED <<pc, context, memItems, csvDf, file, gen, expMem, expCsv, report, instances>>
    /\ last' = Call("run", NoId, "", "")

\* command = input("Enter a command: ")
ReadCommand(command) ==
    /\ "reading" \in {loop[2], loop[3]}
    /\ command = DIVIDE =>
           Len(memItems) < MaxRecords /\ Len(csvDf.rows) < MaxRecords
    /\ loop' = <<command, IF loop[2] = "reading" THEN "handling" ELSE loop[2],
                 IF loop[3] = "reading" THEN "handling" ELSE loop[3]>>
    /\ out' = <<<<>>, <<>>>>
    /\ UNCHANGED <<pc, context, memItems, csvDf, file, gen, expMem, expCsv, report, commands, instances>>
    /\ last' = Call("input", StrCell(command), "", "")

\* input("Enter a command: ") raises EOFError.
ReadEndOfInput ==
    /\ "reading" \in {loop[2], loop[3]}
    /\ out' = <<IF loop[2] = "reading" THEN run(<<Raising("EOFError")>>) ELSE <<>>,
                IF loop[3] = "reading" THEN run(<<Raising("EOFError")>>) ELSE <<>>>>
    /\ loop' = <<<<>>, IF loop[2] = "reading" THEN "exited" ELSE loop[2],
                 IF loop[3] = "reading" THEN "exited" ELSE loop[3]>>
    /\ UNCHANGED <<pc, context, memItems, csvDf, file, gen, expMem, expCsv, report, commands, instances>>
    /\ last' = Call("input", NoId, "EOFError", "EOFError")

\* handle("divide"): x is the command up to
\* history.add_calculation, saves tells whether the file can be written.
HandleArithmetic(x, saves) ==
    LET item == to_dict(x.calc)
        r    == IF saves THEN CsvAdd(csvDf, file, item)
                ELSE CsvAddSaveFails(csvDf, file, item)
        mErr == IF x.err # "" THEN x.err ELSE add_calculation("")
        cErr == IF x.err # "" THEN x.err ELSE add_calculation(r.err)
    IN /\ loop[1] = x.name
       /\ x.created => /\ Fresh(x.calc.id)
                       /\ \A i \in 1..Len(Uuids) :
                             Fresh(StrCell(Uuids[i])) => x.calc.id.s \in Range(SubSeq(Uuids, 1, i))
       /\ ~saves => x.add /\ Handling(3)
       /\ Turn(commands[x.name], ArithmeticCommand(x, mErr), ArithmeticCommand(x, cErr))
       /\ memItems' = IF x.add /\ Handling(2) THEN MemAdd(memItems, item) ELSE memItems
       /\ csvDf' = IF x.add /\ Handling(3) THEN r.df ELSE csvDf
       /\ file' = IF x.add /\ Handling(3) THEN r.file ELSE file
       /\ UNCHANGED <<pc, context, gen, expMem, expCsv, report, commands, instances>>
       /\ last' = Call("handle", StrCell(loop[1]), Escaped(out'[1]), Escaped(out'[2]))

\* handle("history")
HandleHistory ==
    /\ loop[1] = NameHistory
    /\ Turn("HistoryCommand", HistoryCommand(get_all_calculations(MemGetAll(memItems))),
            HistoryCommand(get_all_calculations(CsvGetAll(csvDf))))
    /\ UNCHANGED <<pc, context, memItems, csvDf, file, gen, expMem, expCsv, report, commands, instances>>
    /\ last' = Call("handle", StrCell(loop[1]), Escaped(out'[1]), Escaped(out'[2]))

\* handle("clear_history")
HandleClearHistory(saves) ==
    LET r == IF saves THEN CsvClear(csvDf, file) ELSE CsvClearSaveFails(csvDf, file)
    IN /\ loop[1] = NameClearHistory
       /\ ~saves => Handling(3)
       /\ Turn("ClearHistoryCommand", ClearHistoryCommand(clear_history("")),
               ClearHistoryCommand(clear_history(r.err)))
       /\ memItems' = IF Handling(2) THEN MemClear(memItems) ELSE memItems
       /\ csvDf' = IF Handling(3) THEN r.df ELSE csvDf
       /\ file' = IF Handling(3) THEN r.file ELSE file
       /\ UNCHANGED <<pc, context, gen, expMem, expCsv, report, commands, instances>>
       /\ last' = Call("handle", StrCell(loop[1]), Escaped(out'[1]), Escaped(out'[2]))

\* handle("deletehistory") with calc_id typed at its prompt
HandleDeleteHistory(calc_id, saves) ==
    LET m == MemDelete(memItems, StrCell(calc_id))
        r == IF saves THEN CsvDelete(csvDf, file, StrCell(calc_id))
             ELSE CsvDeleteSaveFails(csvDf, file, StrCell(calc_id))
    IN /\ loop[1] = NameDeleteHistory
       /\ ~saves => Handling(3) /\ calc_id # <<>> /\ r.err = "RepositoryIOError"
       /\ Turn("DeleteHistoryCommand", DeleteHistoryCommand(calc_id, delete_calculation(m.err)),
               DeleteHistoryCommand(calc_id, delete_calculation(r.err)))
       /\ memItems' = IF Handling(2) /\ calc_id # <<>> THEN m.items ELSE memItems
       /\ csvDf' = IF Handling(3) /\ calc_id # <<>> THEN r.df ELSE csvDf
       /\ file' = IF Handling(3) /\ calc_id # <<>> THEN r.file ELSE file
       /\ UNCHANGED <<pc, context, gen, expMem, expCsv, report, commands, instances>>
       /\ last' = Call("handle", StrCell(loop[1]), Escaped(out'[1]), Escaped(out'[2]))

\* handle("exit")
HandleExit ==
    /\ loop[1] = NameExit
    /\ Turn("ExitCommand", ExitCommand, ExitCommand)
    /\ UNCHANGED <<pc, context, memItems, csvDf, file, gen, expMem, expCsv, report, commands, instances>>
    /\ last' = Call("handle", StrCell(loop[1]), Escaped(out'[1]), Escaped(out'[2]))

\* handle("greet")
HandleGreet ==
    /\ loop[1] = NameGreet
    /\ Turn("GreetCommand", GreetCommand, GreetCommand)
    /\ UNCHANGED <<pc, context, memItems, csvDf, file, gen, expMem, expCsv, report, commands, instances>>
    /\ last' = Call("handle", StrCell(loop[1]), Escaped(out'[1]), Escaped(out'[2]))

\* handle("help") and handle of a name that is not registered
HandleHelpOrUnknown ==
    /\ loop[1] = NameHelp \/ loop[1] \notin DOMAIN commands
    /\ Turn("HelpCommand", Returns(HelpCommand(commands)), Returns(HelpCommand(commands)))
    /\ UNCHANGED <<pc, context, memItems, csvDf, file, gen, expMem, expCsv, report, commands, instances>>
    /\ last' = Call("handle", StrCell(loop[1]), Escaped(out'[1]), Escaped(out'[2]))

LoopNext ==
    \/ NewCommandHandler
    \/ RunStart
    \/ \E command \in TypedCommands : ReadCommand(command)
    \/ ReadEndOfInput
    \/ \E x \in LoopExecutions, saves \in BOOLEAN : HandleArithmetic(x, saves)
    \/ HandleHistory
    \/ \E saves \in BOOLEAN : HandleClearHistory(saves)
    \/ \E calc_id \in TypedIds, saves \in BOOLEAN : HandleDeleteHistory(calc_id, saves)
    \/ HandleExit
    \/ HandleGreet
    \/ HandleHelpOrUnknown

LoopSpec == Init /\ [][LoopNext]_vars


\* The lines a variant printed in its last turn.
LinesPrinted(events) ==
    SelectSeq(events, LAMBDA ev : ev[1] \in {"print", "suggest", "not found", "list", "record"})

\* C22: whatever the command and however it fails (unknown name, invalid
\* input, division by zero, id not found, empty history, the file not
\* writable during add, clear or delete), handle returns after printing,
\* and the loop goes on to the next command: no exception other than
\* ExitException and EOFError leaves App.run.
C22_NoFailureIsFatal ==
    /\ loop[2] # "crashed"
    /\ loop[3] # "crashed"
    /\ last.op = "handle" =>
           \A v \in 1..2 : (out[v] # <<>> /\ Escaped(out[v]) = "") => LinesPrinted(out[v]) # <<>>

\* The same for the memory variant alone.
C22_MemoryNeverFatal ==
    /\ loop[2] # "crashed"
    /\ last.op = "handle" =>
           ((out[1] # <<>> /\ Escaped(out[1]) = "") => LinesPrinted(out[1]) # <<>>)

\* The loop of the CSV variant is left only by clear_history and
\* deletehistory, with RepositoryIOError or KeyError; a divide whose record
\* cannot be saved prints its message and the loop goes on.
C22_FatalOnlyInClearAndDelete ==
    [][/\ (loop'[3] = "crashed" /\ loop[3] # "crashed") =>
              /\ loop[1] \in {NameClearHistory, NameDeleteHistory}
              /\ last'.csvErr \in {"RepositoryIOError", "KeyError"}
       /\ (Handling(3) /\ loop[1] = DIVIDE) => loop'[3] = "reading"]_vars

\* clear_history has ended the loop of the CSV variant with
\* RepositoryIOError while the memory variant reads on.
C22_ClearIsFatal ==
    /\ loop = <<NameClearHistory, "reading", "crashed">>
    /\ last.csvErr = "RepositoryIOError"

\* C27: a command is read only when no command is being handled, and the
\* command read is handled to its end by the next step; handling exit, and
\* end of input at the prompt, end the loop with the farewell; once the loop
\* of a variant has ended, the variant reads and handles nothing and its
\* store and file stay as they are.
C27_OneAtATimeUntilExit ==
    [][/\ last'.op = "input" => ~Handling(2) /\ ~Handling(3)
       /\ \A v \in 2..3 :
             /\ Handling(v) =>
                    /\ last'.op = "handle"
                    /\ loop'[1] = loop[1]
                    /\ loop'[v] # "handling"
                    /\ Len(SelectSeq(out'[v - 1], LAMBDA ev : ev[1] = "execute")) <= 2
             /\ (Handling(v) /\ loop[1] = NameExit) =>
                    /\ loop'[v] = "exited"
                    /\ out'[v - 1] = << <<"execute", NameExit, "ExitCommand">>,
                                        Raising("ExitException"),
                                        Printing("Exiting the application...") >>
             /\ (loop[v] = "reading" /\ last'.op = "input" /\ last'.memErr = "EOFError") =>
                    loop'[v] = "exited"
             /\ loop[v] = "exited" =>
                    /\ loop'[v] = "exited"
                    /\ out'[v - 1] = <<>>
             /\ loop'[v] = "exited" /\ loop[v] # "exited" =>
                    \/ Handling(v) /\ loop[1] = NameExit
                    \/ last'.memErr = "EOFError"
       /\ loop[2] = "exited" => memItems' = memItems
       /\ loop[3] = "exited" => csvDf' = csvDf /\ file' = file]_vars

\* exit has been handled after a command that recorded a calculation, and
\* the loops of both variants have ended.
C27_Witness ==
    /\ loop = <<NameExit, "exited", "exited">>
    /\ last.op = "handle"
    /\ Len(memItems) > 0
    /\ Len(csvDf.rows) > 0


(***************************************************************************)
(* Decoding on its own.  from_dict is applied to one dict at a time;       *)
(* memItems holds the dict, expMem the Calculation it yielded (none when   *)
(* it raised) and last the exception.                                      *)
(***************************************************************************)
\* The values a dict handed to from_dict holds under each key: well-formed
\* ones, strings that do not decode, values that are not strings (cells of a
\* CSV file read back as numbers), and the key missing.
DecodeOperands == {Good1.operands, StrCell(<<"1", ",", "x">>), StrCell(<<>>), NaNCell, MissingCell}

DecodeNames == {Good1.operation_name, StrCell(<<"p", "o", "w">>), MissingCell}

DecodeIds == {Good1.id, MissingCell}

DecodeResults == {Good1.result, StrCell(<<>>), StrCell(<<"x">>), MissingCell}

DecodeTimestamps == {Good1.timestamp, StrCell(<<"x">>), IntCell(5), MissingCell}

DecodeDicts ==
    {[Good1 EXCEPT !.operands = o, !.operation_name = n, !.id = i,
                   !.result = r, !.timestamp = t] :
        o \in DecodeOperands, n \in DecodeNames, i \in DecodeIds,
        r \in DecodeResults, t \in DecodeTimestamps}

\* Calculation.from_dict(data)
FromDict(data) ==
    /\ memItems' = <<data>>
    /\ expMem' = IF from_dict(data).err = "" THEN <<from_dict(data).calc>> ELSE <<>>
    /\ UNCHANGED <<csvDf, file, gen, expCsv, report, appVars>>
    /\ last' = Call("from_dict", data.id, from_dict(data).err, from_dict(data).err)

DecodeNext == \E data \in DecodeDicts : FromDict(data)

DecodeSpec == Init /\ [][DecodeNext]_vars

\* The defects of a dict that the decoder is to reject.
MissingKey(data) == \E f \in DOMAIN data : data[f].t = "missing"

InvalidOperand(data) ==
    /\ data.operands.t = "str"
    /\ \E i \in 1..Len(Split(data.operands.s, ",")) :
          ~ParseDecimal(Split(data.operands.s, ",")[i]).ok

UnregisteredOperation(data) ==
    /\ data.operation_name.t = "str"
    /\ data.operation_name.s \notin operation_registry

UnparsableTimestamp(data) ==
    /\ data.timestamp.t = "str"
    /\ ~fromisoformat(data.timestamp.s).ok

\* What the decoder owes for the dict it was given: ValueError and no
\* Calculation for an invalid operand segment, an unregistered operation
\* name or an unparsable timestamp string; KeyError and no Calculation for a
\* missing key when there is no such defect.
RejectsInvalid(data) ==
    /\ (InvalidOperand(data) \/ UnregisteredOperation(data) \/ UnparsableTimestamp(data))
          => /\ expMem = <<>>
             /\ last.memErr \in {"ValueError", "KeyError"}
             /\ ~MissingKey(data) => last.memErr = "ValueError"
    /\ (MissingKey(data) /\ ~InvalidOperand(data) /\ ~UnregisteredOperation(data)
           /\ ~UnparsableTimestamp(data))
          => /\ expMem = <<>>
             /\ last.memErr = "KeyError"

\* C31: from_dict fails with ValueError and yields no Calculation when an
\* operand segment is not a valid decimal, when operation_name is not in the
\* operation registry, or when timestamp is not a parsable ISO-8601 string;
\* it fails with KeyError when a required key is missing.
C31_DecodingRejectsInvalid ==
    last.op = "from_dict" => RejectsInvalid(memItems[1])

\* The same for the dicts that hold strings only and whose result is empty
\* or a decimal string, that is whenever Decimal(data['result']) does not
\* raise before the timestamp is parsed.
C31_RejectsWhenResultDecodes ==
    (last.op = "from_dict"
       /\ \A f \in DOMAIN memItems[1] : memItems[1][f].t \in {"str", "missing"}
       /\ (memItems[1].result.t = "str" /\ Truthy(memItems[1].result)
              => ToDecimal(memItems[1].result).ok))
      => RejectsInvalid(memItems[1])

\* A dict with an unparsable timestamp and a result that is not a decimal
\* has been rejected with decimal.InvalidOperation.
C31_InvalidOperationWitness ==
    /\ last.op = "from_dict"
    /\ UnparsableTimestamp(memItems[1])
    /\ ~MissingKey(memItems[1])
    /\ last.memErr = "InvalidOperation"

\* Each of the three defects alone has been rejected with ValueError, and
\* a missing key with KeyError.
C31_ValueErrorWitness ==
    /\ last.op = "from_dict"
    /\ memItems[1] = [Good1 EXCEPT !.timestamp = StrCell(<<"x">>)]
    /\ last.memErr = "ValueError"
    /\ expMem = <<>>


(***************************************************************************)
(* A Calculation on its own: constructed from an operation and any number  *)
(* of operands, then executed any number of times.  expMem holds the       *)
(* Calculation (nothing when the constructor raised).                      *)
(***************************************************************************)
\* Calculation(operation, *args): [calc, err]; ValueError and no object when
\* there are no operands.
Calculation(id, name, args, now) ==
    IF Len(args) = 0 THEN [calc |-> NoCalc, err |-> "ValueError"]
    ELSE [calc |-> NewCalculation(id, name, args, now), err |-> ""]

\* Operands: zero, a negative integer, a fraction and an integer; every
\* quotient of two of them terminates.
CalculationDecimals == {Dec(0, 0), Dec(-1, 0), Dec(5, -1), Dec(2, 0)}

CalculationOperands == UNION {[1..n -> CalculationDecimals] : n \in 0..MaxOperands}

\* calc = Calculation(operation, *args)
NewCalc(id, name, args, now) ==
    /\ expMem' = IF Calculation(id, name, args, now).err = ""
                 THEN <<Calculation(id, name, args, now).calc>> ELSE <<>>
    /\ UNCHANGED <<memItems, csvDf, file, gen, expCsv, report, appVars>>
    /\ last' = Call("Calculation", StrCell(id), Calculation(id, name, args, now).err,
                    Calculation(id, name, args, now).err)

\* What perform_operation raises: the binary functions raise TypeError when
\* not given two operands, divide raises ZeroDivisionError.
Raised_by(calc, performed) ==
    IF performed.ok THEN ""
    ELSE IF Len(calc.operands) # 2 THEN "TypeError"
    ELSE "ZeroDivisionError"

\* calc.perform_operation()
PerformOperation ==
    /\ expMem # <<>>
    /\ expMem' = <<perform_operation(expMem[1]).calc>>
    /\ UNCHANGED <<memItems, csvDf, file, gen, expCsv, report, appVars>>
    /\ last' = Call("perform_operation", expMem[1].id,
                    Raised_by(expMem[1], perform_operation(expMem[1])),
                    Raised_by(expMem[1], perform_operation(expMem[1])))

CalculationNext ==
    \/ \E id \in Ids, name \in operation_registry, args \in CalculationOperands,
          now \in {T1, T2} : NewCalc(id, name, args, now)
    \/ PerformOperation

CalculationSpec == Init /\ [][CalculationNext]_vars

\* The operation applied to the operands in order.
Applied(calc) == Apply(calc.operation_name, calc.operands[1], calc.operands[2])

\* C32: a Calculation constructed without operands raises and creates
\* nothing, so every Calculation has at least one operand; its result is
\* absent from construction until perform_operation returns, stays absent
\* when the operation raises, and after a successful perform_operation is
\* the operation applied to the operands in order; perform_operation
\* changes nothing but the result.
C32_CalculationInvariants ==
    /\ [](/\ \A i \in 1..Len(expMem) : Len(expMem[i].operands) >= 1
          /\ (last.op = "Calculation" /\ last.memErr # "") <=>
                (last.op = "Calculation" /\ expMem = <<>>)
          /\ (last.op = "Calculation" /\ last.memErr = "") => expMem[1].result = None
          /\ (last.op = "perform_operation" /\ last.memErr # "") => expMem[1].result = None
          /\ (last.op = "perform_operation" /\ last.memErr = "") =>
                /\ Len(expMem[1].operands) = 2
                /\ Applied(expMem[1]).ok
                /\ expMem[1].result = Applied(expMem[1]).v
                /\ expMem[1].result # None)
    /\ [][last'.op = "perform_operation" =>
             /\ Len(expMem') = 1
             /\ expMem'[1].id = expMem[1].id
             /\ expMem'[1].timestamp = expMem[1].timestamp
             /\ expMem'[1].operands = expMem[1].operands
             /\ expMem'[1].operation_name = expMem[1].operation_name]_vars

\* subtract(2, 0.5) has been executed: the result is 1.5, not -1.5.
C32_Witness ==
    /\ last.op = "perform_operation"
    /\ last.memErr = ""
    /\ expMem[1].operation_name = SUBTRACT
    /\ expMem[1].operands = <<Dec(2, 0), Dec(5, -1)>>
    /\ expMem[1].result = Dec(15, -1)

\* A division by zero has left the result absent.
C32_ZeroDivisionWitness ==
    /\ last.op = "perform_operation"
    /\ last.memErr = "ZeroDivisionError"
    /\ expMem[1].result = None

\* A Calculation without operands was asked for and none exists.
C32_NoOperandsWitness ==
    /\ last.op = "Calculation"
    /\ last.memErr = "ValueError"
    /\ expMem = <<>>


\* The calls of the history service among the events of a turn.
Calls(events) == SelectSeq(events, LAMBDA ev : ev[1] = "call")

CallsOf(events, method) == SelectSeq(events, LAMBDA ev : ev[1] = "call" /\ ev[3] = method)

\* C33: DeleteHistoryCommand looks the entered id up with
\* get_calculation_by_id exactly once, before deleting, and calls
\* delete_calculation only when the lookup found a calculation: for an id
\* that is not in the history it prints the no-calculation error and does
\* not call delete_calculation.
C33_LooksUpBeforeDeleting ==
    (last.op = "handle" /\ loop[1] = NameDeleteHistory) =>
        \A v \in 1..2 :
            Calls(out[v]) # <<>> =>
                /\ Calls(out[v])[1][3] = "get_calculation_by_id"
                /\ Len(CallsOf(out[v], "get_calculation_by_id")) = 1
                /\ Printing(NotFoundMessage) \in Range(out[v])
                      => CallsOf(out[v], "delete_calculation") = <<>>

\* What execute does instead: it never calls get_calculation_by_id; for
\* every id that is not empty it calls delete_calculation once, and it is
\* the CalculationNotFoundError of that call that it prints as the
\* no-calculation error.
C33_DeletesWithoutLookup ==
    (last.op = "handle" /\ loop[1] = NameDeleteHistory) =>
        \A v \in 1..2 :
            /\ CallsOf(out[v], "get_calculation_by_id") = <<>>
            /\ Len(CallsOf(out[v], "delete_calculation")) <= 1
            /\ Printing(NotFoundMessage) \in Range(out[v])
                  => Len(CallsOf(out[v], "delete_calculation")) = 1

\* An id that is not in the history has been typed: delete_calculation was
\* called with it and the no-calculation error printed.
C33_AbsentIdWitness ==
    /\ last.op = "handle"
    /\ loop[1] = NameDeleteHistory
    /\ Len(memItems) > 0
    /\ Printing(NotFoundMessage) \in Range(out[1])
    /\ Calls(out[1]) = <<Calling("delete_calculation", <<"z">>)>>


\* C34: a suggestion is accepted only when the similarity of the best
\* registered name strictly exceeds 0.6: when no registered name has a
\* ratio above 0.6 to the name typed, no suggestion is printed and the
\* not-found line and the help fallback follow.
C34_SuggestionOnlyAboveCutoff ==
    (/\ last.op = "handle"
     /\ TypedName \notin DOMAIN commands
     /\ \A n \in DOMAIN commands : ~Above(ratio(n, TypedName), cutoff))
       => /\ Events("suggest") = <<>>
          /\ out[1] = <<"not found", TypedName, "">>
          /\ out[2] = <<"execute", NameHelp, commands[NameHelp]>>

\* What the cutoff of get_close_matches does: a suggestion is printed
\* exactly when some registered name has a ratio of 0.6 or more.
C34_SuggestionFromCutoff ==
    (last.op = "handle" /\ TypedName \notin DOMAIN commands) =>
        (Events("suggest") # <<>>
            <=> \E n \in DOMAIN commands : AtLeast(ratio(n, TypedName), cutoff))

\* "helxyz" has been answered with the suggestion "help", whose ratio to it
\* is 2 * 3 / 10, while no other registered name comes closer.
C34_AtCutoffWitness ==
    /\ last.op = "handle"
    /\ TypedName = <<"h", "e", "l", "x", "y", "z">>
    /\ ratio(NameHelp, TypedName) = <<6, 10>>
    /\ \A n \in DOMAIN commands : ~Above(ratio(n, TypedName), cutoff)
    /\ out = << <<"suggest", NameHelp, "">> >>


\* The lines and the fallback of handle_invalid_command among the events of
\* the last handle: the not-found line, a suggestion, or an execute of what
\* is registered as help that is not the execute of the name typed.
ReportedNotFound ==
    \/ Events("not found") # <<>>
    \/ Events("suggest") # <<>>
    \/ \E i \in 2..Len(out) : out[i][1] = "execute"

\* C35: the handler reports a command as not found only when the name typed
\* is not registered: for a registered name it prints neither the not-found
\* line nor a suggestion and does not run the help fallback, whatever the
\* registered executable does, raising AttributeError included.
C35_NotFoundOnlyWhenUnregistered ==
    (last.op = "handle" /\ TypedName \in DOMAIN commands) => ~ReportedNotFound

\* The same for the executables whose execute() does not raise
\* AttributeError; and an executable that does is always answered with the
\* suggestion of its own name.
C35_NotFoundOnlyOnAttributeError ==
    (last.op = "handle" /\ TypedName \in DOMAIN commands) =>
        IF commands[TypedName] = "Faulty"
        THEN out = << <<"execute", TypedName, "Faulty">>, <<"suggest", TypedName, "">> >>
        ELSE ~ReportedNotFound

\* "exit" is registered with an executable that raises AttributeError and
\* has been answered with: not found, did you mean "exit"?
C35_FaultyWitness ==
    /\ last.op = "handle"
    /\ TypedName = NameExit
    /\ out = << <<"execute", NameExit, "Faulty">>, <<"suggest", NameExit, "">> >>


\* C36: an add, clear or delete of the CSV variant that fails with
\* RepositoryIOError because the file could not be written leaves the
\* in-memory table as it was before the call, so that table and file still
\* hold the same records and no later read returns a record whose add
\* failed.
C36_FailedMutationLeavesStore ==
    [][(last'.op \in {"add", "clear", "delete"} /\ last'.csvErr = "RepositoryIOError") =>
           /\ csvDf' = csvDf
           /\ file = to_csv(csvDf) => file' = to_csv(csvDf')
           /\ CsvGetAll(csvDf') = CsvGetAll(csvDf)]_vars

\* What a failed save leaves behind: the file as it was, and the table
\* already changed: the record appended by add, every row dropped by
\* clear, the rows of the id dropped by delete.
C36_FailedMutationKeepsFileOnly ==
    [][(last'.op \in {"add", "clear", "delete"} /\ last'.csvErr = "RepositoryIOError") =>
           /\ file' = file
           /\ last'.op = "add" =>
                 /\ Len(csvDf'.rows) = Len(csvDf.rows) + 1
                 /\ csvDf'.rows[Len(csvDf'.rows)].id = last'.id
           /\ last'.op = "clear" => csvDf' = EmptyFrame
           /\ last'.op = "delete" =>
                 /\ Len(csvDf'.rows) < Len(csvDf.rows)
                 /\ \A i \in 1..Len(csvDf'.rows) : csvDf'.rows[i].id # last'.id]_vars

\* An add has failed on a table that agreed with the file: get_all now
\* returns a record the file does not hold.
C36_TableAheadOfFile ==
    /\ last.op = "add"
    /\ last.csvErr = "RepositoryIOError"
    /\ file.kind = "table"
    /\ Len(CsvGetAll(csvDf).v) = Len(file.rows) + 1


(***************************************************************************)
(* The two repositories side by side: one MemoryRepository and one         *)
(* CSVRepository, constructed once, receive the same calls; the file is    *)
(* always writable.                                                        *)
(***************************************************************************)
EquivalenceNext ==
    \/ \E c \in Calcs : AddCalculation(c)
    \/ \E id \in Ids \cup {OtherId} : Delete(StrCell(id))
    \/ Clear
    \/ GetAll
    \/ \E id \in Ids \cup {OtherId} : GetById(StrCell(id))
    \/ GetLast
    \/ \E p \in Predicates : Filter(p)

EquivalenceSpec == Init /\ [][EquivalenceNext]_vars

\* The two variants hold the same records in the same order and answer
\* every read alike, in what they return and in what they raise.
SameObservations ==
    /\ memItems = csvDf.rows
    /\ MemGetAll(memItems) = CsvGetAll(csvDf)
    /\ MemGetLast(memItems) = CsvGetLast(csvDf)
    /\ \A id \in Ids \cup {OtherId} :
          MemGetById(memItems, StrCell(id)) = CsvGetById(csvDf, StrCell(id))
    /\ \A p \in Predicates : MemFilter(memItems, p) = CsvFilter(csvDf, p)

\* C37: driven by the same add, get_all, get_by_id, get_last, filter, clear
\* and delete calls, duplicate ids permitted and the file writable, the two
\* variants return the same results and raise the same kinds of error at
\* every step and hold the same sequence of records after every step.
C37_VariantsEquivalent ==
    /\ last.memErr = last.csvErr
    /\ SameObservations

\* Every call but delete keeps the two variants alike, and so does the
\* delete of an id that at most one record has from a table that has its
\* columns.
C37_EquivalentButForDelete ==
    [][(/\ SameObservations
        /\ last'.op = "delete" => (csvDf.cols /\ Count(memItems, last'.id) <= 1))
          => /\ last'.memErr = last'.csvErr
             /\ SameObservations']_vars

\* delete(id) has removed one of two records of the id from the memory
\* variant and both from the CSV variant.
C37_DuplicateIdWitness ==
    /\ last.op = "delete"
    /\ last.memErr = "" /\ last.csvErr = ""
    /\ last.memDelta = -1
    /\ last.csvDelta = -2
    /\ Len(memItems) = Len(csvDf.rows) + 1

\* delete(id) on repositories that never held a record raises
\* ItemNotFoundError in the memory variant and KeyError in the CSV variant.
C37_KeyErrorWitness ==
    /\ last.op = "delete"
    /\ last.memErr = "ItemNotFoundError"
    /\ last.csvErr = "KeyError"


\* ---------------------------------------------------------------------------
\* The object graph of the application context: which CalculationHistory the
\* Calculator holds, which repository each CalculationHistory holds, and what
\* each repository holds.  context is <<held, backends, tables, disk,
\* reported, viewer>>: held is the number of the CalculationHistory that
\* Calculator._history is (0: no Calculator yet); backends[h] is <<class,
\* number>> of the repository of CalculationHistory number h; tables[cls][n]
\* is the records of instance n of repository class cls; disk is the rows of
\* data/calculations.csv; reported is the calculations whose result an
\* arithmetic command printed; viewer is <<history, reported>> of the newest
\* HistoryCommand: the number of its self.history and what had been reported
\* when it was constructed.
\* ---------------------------------------------------------------------------

\* The effect on the object graph of the constructions between the instances
\* dicts before and after: a CSVRepository loads the file and a
\* MemoryRepository starts empty; a CalculationHistory keeps the repository it
\* is given, or CSVRepository(); a Calculator keeps CalculationHistory().
Constructed(ctx, before, after, repository) ==
    LET made(cls) == after[cls][1] > before[cls][1]
        tables    == [cls \in Repositories |->
                         IF made(cls)
                         THEN Append(ctx[3][cls],
                                     IF cls = "CSVRepository" THEN ctx[4] ELSE <<>>)
                         ELSE ctx[3][cls]]
        kept      == IF after["CalculationHistory"][3] = NoArgs
                     THEN "CSVRepository" ELSE repository
        backends  == IF made("CalculationHistory")
                     THEN Append(ctx[2], <<kept, after[kept][1]>>)
                     ELSE ctx[2]
        held      == IF made("Calculator")
                     THEN after["CalculationHistory"][1] ELSE ctx[1]
    IN <<held, backends, tables, ctx[4], ctx[5], ctx[6]>>

RepositoryClass(repository_type) ==
    IF repository_type = "csv" THEN "CSVRepository" ELSE "MemoryRepository"

\* CalculationHistory.add_calculation -> repository.add on the repository of
\* history h: the record joins that repository's table, and a CSVRepository
\* rewrites the file from its table.
RecordInto(ctx, h, id) ==
    LET cls   == ctx[2][h][1]
        n     == ctx[2][h][2]
        table == Append(ctx[3][cls][n], id)
    IN <<ctx[1], ctx[2], [ctx[3] EXCEPT ![cls][n] = table],
         IF cls = "CSVRepository" THEN table ELSE ctx[4], ctx[5], ctx[6]>>

\* CalculationHistory.get_all_calculations of history h
ListedBy(ctx, h) == ctx[3][ctx[2][h][1]][ctx[2][h][2]]

\* ApplicationContext.configure_repositories(repository_type)
ConfigureContext(repository_type) ==
    LET r == configure_repositories(instances, repository_type)
    IN /\ Within(r[1])
       /\ instances' = r[1]
       /\ context' = Constructed(context, instances, r[1],
                                 RepositoryClass(repository_type))
       /\ out' = <<"configure_repositories", repository_type>>
       /\ UNCHANGED <<pc, memItems, csvDf, file, gen, expMem, expCsv, report,
                      commands, loop>>
       /\ last' = Call("configure_repositories", NoId, r[3], r[3])

\* AddCommand() (and subtract, multiply, divide): BinaryOperationExecutor's
\* self.calculator = calculator or Calculator()
NewArithmeticCommand ==
    LET r == get_instance(instances, "Calculator", NoArgs)
    IN /\ Within(r[1])
       /\ instances' = r[1]
       /\ context' = Constructed(context, instances, r[1], "CSVRepository")
       /\ out' = <<"Calculator", r[2]>>
       /\ UNCHANGED <<pc, memItems, csvDf, file, gen, expMem, expCsv, report,
                      commands, loop>>
       /\ last' = Call("new_arithmetic", NoId, r[3], r[3])

\* AddCommand.execute with two decimal inputs: Calculator.perform_operation
\* records into self._history and the result is printed.
ExecuteArithmeticCommand ==
    /\ context[1] # 0
    /\ Len(context[5]) < MaxRecords
    /\ LET id    == Len(context[5]) + 1
           added == RecordInto(context, context[1], id)
       IN /\ context' = [added EXCEPT ![5] = Append(context[5], id)]
          /\ out' = <<"Result", id>>
          /\ UNCHANGED <<pc, memItems, csvDf, file, gen, expMem, expCsv, report,
                         commands, loop, instances>>
          /\ last' = Call("arithmetic", id, "", "")

\* HistoryCommand(): self.history = history or CalculationHistory()
NewHistoryCommand ==
    LET r == get_instance(instances, "CalculationHistory", NoArgs)
    IN /\ Within(r[1])
       /\ instances' = r[1]
       /\ context' = [Constructed(context, instances, r[1], "CSVRepository")
                         EXCEPT ![6] = <<r[2], context[5]>>]
       /\ out' = <<"CalculationHistory", r[2]>>
       /\ UNCHANGED <<pc, memItems, csvDf, file, gen, expMem, expCsv, report,
                      commands, loop>>
       /\ last' = Call("new_history", NoId, r[3], r[3])

\* HistoryCommand.execute of the newest HistoryCommand: the calculations of
\* self.history are printed.
ExecuteHistoryCommand ==
    /\ context[6][1] # 0
    /\ out' = <<"history", ListedBy(context, context[6][1])>>
    /\ UNCHANGED <<pc, memItems, csvDf, file, gen, expMem, expCsv, report,
                   commands, loop, instances, context>>
    /\ last' = Call("history", NoId, "", "")

ContextNext ==
    \/ \E repository_type \in {"csv", "memory"} : ConfigureContext(repository_type)
    \/ NewArithmeticCommand
    \/ ExecuteArithmeticCommand
    \/ NewHistoryCommand
    \/ ExecuteHistoryCommand

ContextSpec == Init /\ [][ContextNext]_vars

\* C38: the CalculationHistory that the Calculator records into is the
\* instance that CalculationHistory() returns now, and a history command
\* lists every calculation that had been reported when it was constructed.
C38_CalculatorRecordsIntoCurrentHistory ==
    /\ instances["Calculator"][2] =>
           /\ instances["CalculationHistory"][2]
           /\ context[1] = instances["CalculationHistory"][1]
    /\ last.op = "history" =>
           Range(context[6][2]) \subseteq Range(out[2])

\* C38, as the code has it: the Calculator keeps the CalculationHistory it
\* was constructed with whatever is configured later, and a history command
\* holding that same CalculationHistory lists every reported calculation.
C38_CalculatorKeepsFirstHistory ==
    /\ [](last.op = "history" /\ context[6][1] = context[1] =>
              Range(context[5]) \subseteq Range(out[2]))
    /\ [][context[1] # 0 => context'[1] = context[1]]_vars

\* An arithmetic command reported a calculation, a HistoryCommand was
\* constructed afterwards and its listing lacks the calculation.
C38_StaleHistoryWitness ==
    /\ last.op = "history"
    /\ context[6][2] # <<>>
    /\ ~(Range(context[6][2]) \subseteq Range(out[2]))
    /\ context[1] # instances["CalculationHistory"][1]


\* ---------------------------------------------------------------------------
\* Concurrent writers of one CSV file: CSVRepository instances over the same
\* file_path, each in a process of its own (a singleton is one per process).
\* Instance i holds the table context[3]["CSVRepository"][i]; pc[i] is
\* <<position of writer i in add, id of the record it added last>>, the
\* position being "idle" outside add and "save" between the concat and
\* _save_to_csv.
\* ---------------------------------------------------------------------------

MaxWrites == 3

WriterTable(i) == context[3]["CSVRepository"][i]

Written == UNION {Range(WriterTable(i)) : i \in DOMAIN pc}

\* CSVRepository(file_path): the table is what the file holds now.
WriterInit ==
    /\ Len(pc) < MaxInstances
    /\ context' = [context EXCEPT ![3]["CSVRepository"] = Append(@, context[4])]
    /\ pc' = Append(pc, <<"idle", 0>>)
    /\ out' = <<"CSVRepository", Len(pc) + 1>>
    /\ UNCHANGED <<memItems, csvDf, file, gen, expMem, expCsv, report,
                   commands, loop, instances>>
    /\ last' = Call("writer_init", NoId, "", "")

\* add, up to the save: self._df = pd.concat([self._df, new_row]) with a
\* record of a new id.
WriterAdd(i) ==
    /\ pc[i][1] = "idle"
    /\ Cardinality(Written) < MaxWrites
    /\ LET id == Cardinality(Written) + 1
       IN /\ context' = [context EXCEPT ![3]["CSVRepository"][i] = Append(@, id)]
          /\ pc' = [pc EXCEPT ![i] = <<"save", id>>]
          /\ out' = <<"concat", i>>
          /\ UNCHANGED <<memItems, csvDf, file, gen, expMem, expCsv, report,
                         commands, loop, instances>>
          /\ last' = Call("writer_add", id, "", "")

\* A variant of the save that appends the new record to the file.
WriterSaveAppends(i) ==
    /\ pc[i][1] = "save"
    /\ context' = [context EXCEPT ![4] = Append(@, pc[i][2])]
    /\ pc' = [pc EXCEPT ![i] = <<"idle", pc[i][2]>>]
    /\ out' = <<"to_csv", i>>
    /\ UNCHANGED <<memItems, csvDf, file, gen, expMem, expCsv, report,
                   commands, loop, instances>>
    /\ last' = Call("writer_save", pc[i][2], "", "")

\* add, the save: _save_to_csv rewrites the file from the writer's table.
WriterSave(i) ==
    /\ pc[i][1] = "save"
    /\ context' = [context EXCEPT ![4] = WriterTable(i)]
    /\ pc' = [pc EXCEPT ![i] = <<"idle", pc[i][2]>>]
    /\ out' = <<"to_csv", i>>
    /\ UNCHANGED <<memItems, csvDf, file, gen, expMem, expCsv, report,
                   commands, loop, instances>>
    /\ last' = Call("writer_save", pc[i][2], "", "")

WritersNext ==
    \/ WriterInit
    \/ \E i \in DOMAIN pc : WriterAdd(i)
    \/ \E i \in DOMAIN pc : WriterSave(i)

WritersSpec == Init /\ [][WritersNext]_vars

\* Writers i and j have each finished an add and neither's table holds the
\* record the other added last (it was loaded before the other's write).
BothAdded(i, j) ==
    /\ i # j
    /\ pc[i][1] = "idle" /\ pc[i][2] # 0
    /\ pc[j][1] = "idle" /\ pc[j][2] # 0
    /\ pc[i][2] \notin Range(WriterTable(j))
    /\ pc[j][2] \notin Range(WriterTable(i))

\* C39: when two instances over the same file have each added a record to a
\* table loaded before the other's write, the file does not hold both
\* records, and with no third instance writing it holds exactly one of
\* them: the update of the writer that saved first is lost.
C39_LostUpdate ==
    \A i, j \in DOMAIN pc :
        BothAdded(i, j) =>
            /\ ~({pc[i][2], pc[j][2]} \subseteq Range(context[4]))
            /\ Len(pc) = 2 =>
                   pc[i][2] \in Range(context[4]) \/ pc[j][2] \in Range(context[4])

\* Both instances were constructed over the empty file, both adds overlapped
\* and the file holds the second writer's record only.
C39_LostUpdateWitness ==
    /\ Len(pc) = 2
    /\ BothAdded(1, 2)
    /\ WriterTable(1) = <<pc[1][2]>>
    /\ WriterTable(2) = <<pc[2][2]>>
    /\ context[4] = WriterTable(2)
    /\ pc[1][2] \notin Range(context[4])


\* ---------------------------------------------------------------------------
\* Registrations and command loads on one CommandHandler.  A package is the
\* sequence of <<module name, Command subclass>> that pkgutil.iter_modules
\* and inspect.getmembers yield; the packages loaded here have modules named
\* like registered commands, "help" among them.
\* ---------------------------------------------------------------------------

Packages ==
    {<<<<NameExit, "First">>, <<<<"a", "d", "d">>, "Second">>>>,
     <<<<NameHelp, "Second">>>>,
     <<<<<<"a", "n", "d">>, "Faulty">>, <<NameHelp, "Faulty">>>>}

\* handler.load_commands(package)
LoadCommands(package) ==
    /\ commands # NoCommands
    /\ commands' = _load_commands(commands, package)
    /\ out' = [i \in 1..Len(package) |-> <<"register", package[i][1], package[i][2]>>]
    /\ UNCHANGED <<memItems, csvDf, file, gen, expMem, expCsv, report, loop,
                   instances, context, pc>>
    /\ last' = Call("load_commands", NoId, "", "")

RegistryNext ==
    \/ NewCommandHandler
    \/ \E n \in Registered, e \in Executables : Register(n, e)
    \/ \E package \in Packages : LoadCommands(package)
    \/ \E n \in Typed : Handle(n)
    \/ GetCommands

RegistrySpec == Init /\ [][RegistryNext]_vars

\* C40: a CommandHandler always has a command registered as "help",
\* whatever was registered and loaded; a handle that prints the not-found
\* line goes on to execute that command, and no handle ends in KeyError.
C40_HelpAlwaysRegistered ==
    /\ commands # NoCommands => NameHelp \in DOMAIN commands
    /\ last.op = "handle" =>
           /\ Raising("KeyError") \notin Range(out)
           /\ Events("not found") # <<>> =>
                  /\ Len(out) >= 2
                  /\ out[2] = <<"execute", NameHelp, commands[NameHelp]>>

\* "zzz9" was typed to a handler with several commands whose "help" has been
\* registered again with another executable: the fallback executed it.
C40_Witness ==
    /\ last.op = "handle"
    /\ TypedName = <<"z", "z", "z", "9">>
    /\ Cardinality(DOMAIN commands) >= 3
    /\ commands[NameHelp] = "Second"
    /\ out = << <<"not found", TypedName, "">>, <<"execute", NameHelp, "Second">> >>

\* A package with a module named help has just been loaded.
C40_LoadedHelpWitness ==
    /\ last.op = "load_commands"
    /\ Len(out) = 2
    /\ commands[NameHelp] = "Faulty"

=============================================================================
